---- MODULE Spec2Model ----
(***************************************************************************)
(* Model of app.py: the SPSS variable-name sanitizer, the "Procesar Datos" *)
(* handler (simplify names, variable labels, ordinal encoding with the     *)
(* session cache) and the export block (final sanitization, missing-value  *)
(* classification, hand-off to pyreadstat.write_sav).                      *)
(*                                                                         *)
(* A string is a sequence of one-character strings.  Characters outside    *)
(* ASCII are written by their code point ("U+00F1").                       *)
(***************************************************************************)
EXTENDS Integers, Sequences, FiniteSets, TLC

VARIABLES
    \* sanitizer runs
    name_in,        \* argument of sanitize_spss_varname
    name_out,       \* its result, or NONE before the call
    name_out2,      \* the result of sanitizing name_out again, or NONE
    \* the script's inputs
    df_original,    \* the uploaded file as pandas loaded it
    opts,           \* sidebar: simplify, labels, encode, mode, client
    \* st.session_state
    ss_df_processed,        \* [set |-> FALSE] is None
    ss_variable_labels,
    ss_value_labels,
    cache,                  \* codificaciones_ordinales_cache
    log_messages,
    \* locals of the "Procesar Datos" handler
    pc,
    df_processed,
    spss_variable_labels_dict,
    spss_value_labels_dict,
    original_to_simplified_map_for_labels,
    columnas_a_evaluar,
    col_i,
    \* the export block: its locals and what write_sav was handed
    sav,
    \* observation: the Advisor calls made in the session, and counters
    advisor_calls,
    runs_left,      \* process invocations the session may still start
    reruns_left     \* script reruns (export only) still allowed after a run

NONE == "None"

----------------------------------------------------------------------------
(* Constants of app.py *)

MAX_CATEGORIAS_PARA_LLM == 10
SPSS_VAR_NAME_MAX_LEN == 64

----------------------------------------------------------------------------
(* Bounds of the model *)

\* longest string enumerated character by character
MaxLen == 3
\* most columns of a table in the runs of the final pass alone
MaxNames == 3
\* most process invocations in a session of the session runs
MaxRuns == 2
\* most reruns of the script after a process invocation
MaxReruns == 1
\* rows of the columns the missing-value classifier is run on
MaxRows == 3

----------------------------------------------------------------------------
(* Characters: Python's str / re classes *)

AsciiUpper == {"A","B","C","D","E","F","G","H","I","J","K","L","M",
               "N","O","P","Q","R","S","T","U","V","W","X","Y","Z"}
AsciiLower == {"a","b","c","d","e","f","g","h","i","j","k","l","m",
               "n","o","p","q","r","s","t","u","v","w","x","y","z"}
AsciiLetter == AsciiUpper \cup AsciiLower
AsciiDigit == {"0","1","2","3","4","5","6","7","8","9"}
\* n with tilde, small and capital: str.isalpha() and \w both accept them
UnicodeLetter == {"U+00F1", "U+00D1"}
\* superscript two: \w accepts it, str.isalpha() does not
UnicodeDigit == {"U+00B2"}

\* re class [.:\-/]
IsPunct(c) == c \in {".", ":", "-", "/"}
\* re class \s
IsSpace(c) == c \in {" ", "\t"}
\* re class [\w_] of a str pattern (Unicode aware)
WordChars == AsciiLetter \cup AsciiDigit \cup {"_"} \cup UnicodeLetter \cup UnicodeDigit
IsWord(c) == c \in WordChars
\* str.isalpha() of one character
AlphaChars == AsciiLetter \cup UnicodeLetter
IsAlpha(c) == c \in AlphaChars

Min(a, b) == IF a < b THEN a ELSE b

\* s[:n] for n >= 0
Prefix(s, n) == SubSeq(s, 1, Min(Len(s), n))

\* str(n) for n >= 0
RECURSIVE StrOfNat(_)
StrOfNat(n) ==
    LET d == <<"0","1","2","3","4","5","6","7","8","9">>[(n % 10) + 1]
    IN  IF n < 10 THEN <<d>> ELSE StrOfNat(n \div 10) \o <<d>>

----------------------------------------------------------------------------
(* sanitize_spss_varname *)

\* re.sub(r'[.:\-/]', '_', s)
SubPunct(s) == [i \in 1..Len(s) |-> IF IsPunct(s[i]) THEN "_" ELSE s[i]]

\* each character with TRUE when it starts a run or is no whitespace
RunStarts(s) ==
    [i \in 1..Len(s) |-> <<s[i], ~(IsSpace(s[i]) /\ i > 1 /\ IsSpace(s[i - 1]))>>]

RunsToUnderscore(kept) ==
    [i \in 1..Len(kept) |-> IF IsSpace(kept[i][1]) THEN "_" ELSE kept[i][1]]

\* re.sub(r'\s+', '_', s): each maximal run of whitespace becomes one "_"
SubSpaces(s) == RunsToUnderscore(SelectSeq(RunStarts(s), LAMBDA e : e[2]))

\* re.sub(r'[^\w_]', '', s)
StripNonWord(s) == SelectSeq(s, IsWord)

AddPrefixAlways(s) == <<"V", "_">> \o s

\* the "V_" prefix of names that are empty or do not start with a letter
AddPrefix(s) ==
    IF s = <<>> \/ ~IsAlpha(s[1]) THEN <<"V", "_">> \o s ELSE s

\* name_str[:SPSS_VAR_NAME_MAX_LEN]
Truncate(s) == Prefix(s, SPSS_VAR_NAME_MAX_LEN)

UnnamedVar == <<"U","n","n","a","m","e","d","V","a","r">>

\* lines 39-41
OrUnnamedVar(s) == IF s = <<>> THEN UnnamedVar ELSE s

sanitize_spss_varname(name_str) ==
    OrUnnamedVar(Truncate(AddPrefix(StripNonWord(SubSpaces(SubPunct(name_str))))))

----------------------------------------------------------------------------
(* Python dicts: insertion-ordered sequences of <<key, value>> pairs *)

Keys(d) == {d[i][1] : i \in 1..Len(d)}
HasKey(d, k) == \E i \in 1..Len(d) : d[i][1] = k
\* d.get(k, default)
Get(d, k, default) ==
    IF HasKey(d, k) THEN d[CHOOSE i \in 1..Len(d) : d[i][1] = k][2] ELSE default
\* d[k] = v
Put(d, k, v) ==
    IF HasKey(d, k)
    THEN [i \in 1..Len(d) |-> IF d[i][1] = k THEN <<k, v>> ELSE d[i]]
    ELSE Append(d, <<k, v>>)

Range(s) == {s[i] : i \in 1..Len(s)}

\* the members of a set of numbers, ascending
SeqOfSet(S) ==
    [i \in 1..Cardinality(S) |->
        CHOOSE x \in S : Cardinality({y \in S : y < x}) = i - 1] \o <<>>

----------------------------------------------------------------------------
(* The uniqueness loop of the batch passes:                                 *)
(*   unique = base; count = 1                                               *)
(*   while unique in seen:                                                  *)
(*       unique = f"{base[:MAX - (len(str(count)) + 1)]}_{count}"; count+=1 *)

\* f"{base[:SPSS_VAR_NAME_MAX_LEN - (len(str(count)) + 1)]}_{count}"
Suffixed(base, count) ==
    Prefix(base, SPSS_VAR_NAME_MAX_LEN - (Len(StrOfNat(count)) + 1))
        \o <<"_">> \o StrOfNat(count)

RECURSIVE UniqueLoop(_, _, _, _)
UniqueLoop(base, seen, unique, count) ==
    IF unique \in seen
    THEN UniqueLoop(base, seen, Suffixed(base, count), count + 1)
    ELSE unique

UniqueNameFirstTryOnly(base, seen) ==
    IF base \in seen THEN Suffixed(base, 1) ELSE base

UniqueName(base, seen) == UniqueLoop(base, seen, base, 1)

\* the names a batch pass gives to the bases, in order
RECURSIVE UniqueBatchFrom(_, _)
UniqueBatchFrom(bases, done) ==
    IF Len(done) = Len(bases) THEN done
    ELSE UniqueBatchFrom(bases,
             Append(done, UniqueName(bases[Len(done) + 1], Range(done))))

UniqueBatchAsProposed(bases) == bases

UniqueBatch(bases) == UniqueBatchFrom(bases, <<>>)

final_sav_column_names_AsCommitted(current_col_names) == current_col_names

\* final_sav_column_names of the export block
final_sav_column_names(current_col_names) ==
    UniqueBatch([i \in 1..Len(current_col_names) |->
                    sanitize_spss_varname(current_col_names[i])])

----------------------------------------------------------------------------
(* Tables.  A DataFrame is a sequence of columns [name, dtype, vals]; a     *)
(* cell is Null (NaN), a text or a number.                                  *)

Null == [k |-> "null"]
Txt(s) == [k |-> "str", s |-> s]
Num(n) == [k |-> "num", n |-> n]

IsNull(cell) == cell.k = "null"

ColNames(df) == [i \in 1..Len(df) |-> df[i].name]
HasCol(df, name) == \E i \in 1..Len(df) : df[i].name = name
ColIndex(df, name) == CHOOSE i \in 1..Len(df) : df[i].name = name
Col(df, name) == df[ColIndex(df, name)]

\* df[name] = vals (dtype as given): replaces in place, or appends a column
SetCol(df, name, dtype, vals) ==
    LET c == [name |-> name, dtype |-> dtype, vals |-> vals]
    IN  IF HasCol(df, name)
        THEN [i \in 1..Len(df) |-> IF df[i].name = name THEN c ELSE df[i]]
        ELSE Append(df, c)

\* df.rename(columns=names), names[i] the new name of column i
RenameCols(df, names) ==
    [i \in 1..Len(df) |-> [df[i] EXCEPT !.name = names[i]]]

is_numeric_dtype_IntOnly(dtype) == dtype \in {"int64", "Int64"}

\* pd.api.types.is_numeric_dtype
is_numeric_dtype(dtype) == dtype \in {"int64", "float64", "Int64"}

----------------------------------------------------------------------------
(* Order of strings: Python compares str by code point *)

CharOrder ==
    <<"\t", " ", "(", "-", "0","1","2","3","4","5","6","7","8","9",
      "A","B","C","D","E","F","G","H","I","J","K","L","M",
      "N","O","P","Q","R","S","T","U","V","W","X","Y","Z", "_",
      "a","b","c","d","e","f","g","h","i","j","k","l","m",
      "n","o","p","q","r","s","t","u","v","w","x","y","z",
      "U+00B2", "U+00D1", "U+00F1">>

CodeRank(c) == CHOOSE i \in 1..Len(CharOrder) : CharOrder[i] = c

RECURSIVE StrLess(_, _)
StrLess(a, b) ==
    IF b = <<>> THEN FALSE
    ELSE IF a = <<>> THEN TRUE
    ELSE IF a[1] = b[1] THEN StrLess(Tail(a), Tail(b))
    ELSE CodeRank(a[1]) < CodeRank(b[1])

\* sorted(list(S)) for a set of distinct strings
Sorted(S) ==
    [i \in 1..Cardinality(S) |->
        CHOOSE x \in S : Cardinality({y \in S : StrLess(y, x)}) = i - 1] \o <<>>

----------------------------------------------------------------------------
(* Category extraction (lines 466-471) and the size gate (line 476) *)

nan == <<"n", "a", "n">>

\* str(cell) of a cell of an object column; NaN prints as "nan"
StrOfCell(cell) ==
    IF cell.k = "str" THEN cell.s
    ELSE IF cell.k = "num" THEN StrOfNat(cell.n)
    ELSE nan

\* .replace('', 'nan') of one value
ReplaceEmpty(s) == IF s = <<>> THEN nan ELSE s

\* sorted(list(col.dropna().astype(str).replace('', 'nan').unique()))
categorias_unicas(vals) ==
    Sorted({ReplaceEmpty(StrOfCell(vals[r])) :
                r \in {q \in 1..Len(vals) : ~IsNull(vals[q])}})

SizeGateSkipsNoUpperLimit(cats) == cats = <<>> \/ ~(1 < Len(cats))

\* not categorias_unicas or not (1 < len(categorias_unicas) <= MAX)
SizeGateSkips(cats) ==
    cats = <<>> \/ ~(1 < Len(cats) /\ Len(cats) <= MAX_CATEGORIAS_PARA_LLM)

source_column_NullKept(vals) ==
    [r \in 1..Len(vals) |->
        IF IsNull(vals[r]) THEN <<"N", "a", "N">> ELSE ReplaceEmpty(StrOfCell(vals[r]))]

\* df_original[col].astype(str).replace('', 'nan')
source_column_for_mapping(vals) ==
    [r \in 1..Len(vals) |-> ReplaceEmpty(StrOfCell(vals[r]))]

----------------------------------------------------------------------------
(* The Advisor: get_llm_mapping_suggestion (lines 213-274)                  *)
(*                                                                          *)
(* What the call and json.loads give:                                       *)
(*   [t |-> "fail"]   the API call raised, or the text is not JSON          *)
(*   [t |-> "list"]   JSON that is a non-empty list                         *)
(*   [t |-> "empty"]  the JSON object {}                                    *)
(*   [t |-> "dict", is_ordinal, mapping_dict]   any other JSON object; a    *)
(*       missing "is_ordinal" reads as FALSE and a missing or null          *)
(*       "mapping_dict" as NotADict, as .get() reads them                   *)
(* A mapping value is an int, a float (n + 0.5), a string of digits, a      *)
(* string that is no number, or null.                                       *)

JInt(n) == [t |-> "int", n |-> n]
JFloat(n) == [t |-> "float", n |-> n]
JNumStr(n) == [t |-> "numstr", n |-> n]
JBadStr == [t |-> "badstr"]
JNull == [t |-> "null"]

NotADict == [isdict |-> FALSE]
Dict(items) == [isdict |-> TRUE, items |-> items]

SugNone == [t |-> "none"]
SugEmpty == [t |-> "empty"]
SugDict(is_ordinal, mapping_dict) ==
    [t |-> "dict", is_ordinal |-> is_ordinal, mapping_dict |-> mapping_dict]

\* bool(sugerencia)
Truthy(sug) == sug.t = "dict"

\* lines 261-269: a value that is no int or float is replaced by int(v) when
\* int(v) succeeds and kept when it raises ValueError
CoerceValue(v) == IF v.t = "numstr" THEN JInt(v.n) ELSE v

\* int(None) raises TypeError, which line 266 does not catch
CoercionRaises(items) == \E i \in 1..Len(items) : items[i][2].t = "null"

\* TRUE when the call lets an exception escape
AdvisorRaises(raw) ==
    \/ raw.t = "list"
    \/ /\ raw.t = "dict"
       /\ raw.mapping_dict.isdict
       /\ CoercionRaises(raw.mapping_dict.items)

\* the value returned, for a raw response that does not raise
get_llm_mapping_suggestion(raw) ==
    IF raw.t = "fail" THEN SugNone
    ELSE IF raw.t = "empty" THEN SugEmpty
    ELSE IF raw.mapping_dict.isdict
         THEN SugDict(raw.is_ordinal,
                  Dict([i \in 1..Len(raw.mapping_dict.items) |->
                          <<raw.mapping_dict.items[i][1],
                            CoerceValue(raw.mapping_dict.items[i][2])>>]))
         ELSE SugDict(raw.is_ordinal, NotADict)

----------------------------------------------------------------------------
(* Session cache (lines 481-489) *)

\* st.session_state.codificaciones_ordinales_cache.get(clave_cache)
CacheGet(entries, clave_cache) == Get(entries, clave_cache, SugNone)

CacheStoreNever(entries, clave_cache, sug) == entries

CacheStoreAlways(entries, clave_cache, sug) == Put(entries, clave_cache, sug)

\* line 487: if sugerencia: cache[clave_cache] = sugerencia
CacheStore(entries, clave_cache, sug) ==
    IF Truthy(sug) THEN Put(entries, clave_cache, sug) ELSE entries

----------------------------------------------------------------------------
(* Mapping construction and application (lines 491-535) *)

VALUE_LABEL_MAX_LEN == 120
VAR_LABEL_MAX_LEN == 256

\* line 491
SuggestsEncoding(sug) ==
    Truthy(sug) /\ sug.is_ordinal /\ sug.mapping_dict.isdict

\* int(v_numero) succeeds
IntOk(v) == v.t \in {"int", "float", "numstr"}
\* int(v_numero): a float is truncated
IntOf(v) == v.n

\* mapeo_texto_a_numero: the entries whose value converts, in iteration order
RECURSIVE mapeo_texto_a_numero(_)
mapeo_texto_a_numero(items) ==
    IF items = <<>> THEN <<>>
    ELSE LET rest == mapeo_texto_a_numero(SubSeq(items, 1, Len(items) - 1))
             e == items[Len(items)]
         IN  IF IntOk(e[2]) THEN Put(rest, e[1], IntOf(e[2])) ELSE rest

RECURSIVE etiquetas_valor_FirstWins(_)
etiquetas_valor_FirstWins(items) ==
    IF items = <<>> THEN <<>>
    ELSE LET rest == etiquetas_valor_FirstWins(SubSeq(items, 1, Len(items) - 1))
             e == items[Len(items)]
         IN  IF IntOk(e[2]) /\ ~HasKey(rest, IntOf(e[2]))
             THEN Put(rest, IntOf(e[2]), Prefix(e[1], VALUE_LABEL_MAX_LEN))
             ELSE rest

\* etiquetas_valor_spss_para_esta_col: number -> text[:120], later entries win
RECURSIVE etiquetas_valor(_)
etiquetas_valor(items) ==
    IF items = <<>> THEN <<>>
    ELSE LET rest == etiquetas_valor(SubSeq(items, 1, Len(items) - 1))
             e == items[Len(items)]
         IN  IF IntOk(e[2])
             THEN Put(rest, IntOf(e[2]), Prefix(e[1], VALUE_LABEL_MAX_LEN))
             ELSE rest

MapColumnUnmappedToZero(source, mapeo) ==
    [r \in 1..Len(source) |-> Num(Get(mapeo, source[r], 0))]

\* source.map(mapeo), then pd.to_numeric(...).astype(Int64)
MapColumn(source, mapeo) ==
    [r \in 1..Len(source) |->
        IF HasKey(mapeo, source[r]) THEN Num(Get(mapeo, source[r], 0)) ELSE Null]

NumSuffix == <<"_", "n", "u", "m">>

RECURSIVE DestLoopBatchRule(_, _, _, _)
DestLoopBatchRule(col, names, temp_dest_name, cnt) ==
    IF temp_dest_name \in names
    THEN DestLoopBatchRule(col, names, Suffixed(col \o NumSuffix, cnt), cnt + 1)
    ELSE temp_dest_name

\* lines 513-519: f"{col}_num", then f"{col}_num{cnt}" while the name is taken
RECURSIVE DestLoop(_, _, _, _)
DestLoop(col, names, temp_dest_name, cnt) ==
    IF temp_dest_name \in names
    THEN DestLoop(col, names, col \o NumSuffix \o StrOfNat(cnt), cnt + 1)
    ELSE temp_dest_name

columna_destino_derive_Source(col, names) == col

columna_destino_derive(col, names) == DestLoop(col, names, col \o NumSuffix, 1)

columna_destino_AlwaysNew(mode, col, names) == columna_destino_derive(col, names)

\* lines 512-527: the column the encoded values are written to
columna_destino_spss_name(mode, col, names) ==
    IF mode = "derive" THEN columna_destino_derive(col, names) ELSE col

----------------------------------------------------------------------------
(* Name Simplifier: basic_column_simplifier (lines 124-131) and             *)
(* simplify_survey_column_names_llm (lines 44-122)                          *)

LowerSeq == <<"a","b","c","d","e","f","g","h","i","j","k","l","m",
              "n","o","p","q","r","s","t","u","v","w","x","y","z","U+00F1">>
UpperSeq == <<"A","B","C","D","E","F","G","H","I","J","K","L","M",
              "N","O","P","Q","R","S","T","U","V","W","X","Y","Z","U+00D1">>

\* str.upper() and str.lower() of one character
LowerChars == Range(LowerSeq)
UpperChars == Range(UpperSeq)
ToUpper(c) ==
    IF c \in LowerChars
    THEN UpperSeq[CHOOSE i \in 1..Len(LowerSeq) : LowerSeq[i] = c] ELSE c
ToLower(c) ==
    IF c \in UpperChars
    THEN LowerSeq[CHOOSE i \in 1..Len(UpperSeq) : UpperSeq[i] = c] ELSE c

\* word.capitalize()
Capitalize(w) ==
    [i \in 1..Len(w) |-> IF i = 1 THEN ToUpper(w[i]) ELSE ToLower(w[i])]

\* name.strip().split(): the maximal runs of characters that are no whitespace
WordStarts(s) ==
    {i \in 1..Len(s) : ~IsSpace(s[i]) /\ (i = 1 \/ IsSpace(s[i - 1]))}

WordEnd(s, i) ==
    CHOOSE j \in i..Len(s) :
        /\ \A q \in i..j : ~IsSpace(s[q])
        /\ (j = Len(s) \/ IsSpace(s[j + 1]))

WordsAt(s, order) ==
    [w \in 1..Len(order) |-> SubSeq(s, order[w], WordEnd(s, order[w]))] \o <<>>

Split(s) == WordsAt(s, SeqOfSet(WordStarts(s)))

RECURSIVE Concat(_)
Concat(words) ==
    IF words = <<>> THEN <<>> ELSE Head(words) \o Concat(Tail(words))

\* The three phrases removed by lines 125-127 ("...AGREE or DISAGREE...",
\* "Please tell us...", "(optional)") occur in no name of the model, so the
\* three substitutions leave every name as it is.
\* the default of the parameter max_words (line 124)
max_words == 3

\* line 130: the first max_words words capitalized and joined
JoinWords(words, column_name) ==
    IF words # <<>>
    THEN Concat([i \in 1..Min(Len(words), max_words) |-> Capitalize(words[i])])
    ELSE column_name

basic_column_simplifier(column_name) ==
    sanitize_spss_varname(
        JoinWords(Split(SelectSeq(column_name,
                            LAMBDA c : c \notin {"U+00BF", "?", ".", ":", "!"})),
                  column_name))

RawFail == [t |-> "fail"]
RawDict(items) == [t |-> "dict", items |-> items]

\* lines 108-118, for a parsed response that is a dict: every returned name
\* sanitized, every missing column filled in by basic_column_simplifier
RECURSIVE FillMissingNames(_, _)
FillMissingNames(validated, column_names_list) ==
    IF column_names_list = <<>> THEN validated
    ELSE LET key == Head(column_names_list)
         IN  FillMissingNames(
                 IF HasKey(validated, key) THEN validated
                 ELSE Put(validated, key, basic_column_simplifier(key)),
                 Tail(column_names_list))

RECURSIVE PutAll(_, _)
PutAll(d, items) ==
    IF items = <<>> THEN d
    ELSE PutAll(Put(d, items[1][1], items[1][2]), Tail(items))

\* the dict returned; None is the empty dict with ok = FALSE
simplify_survey_column_names_llm(column_names_list, raw) ==
    IF raw.t = "fail" THEN [ok |-> FALSE, map |-> <<>>]
    ELSE [ok |-> TRUE,
          map |-> FillMissingNames(
                      PutAll(<<>>, [i \in 1..Len(raw.items) |->
                                      <<raw.items[i][1],
                                        sanitize_spss_varname(raw.items[i][2])>>]),
                      column_names_list)]

----------------------------------------------------------------------------
(* Label Generator: generate_variable_labels_llm (lines 134-211) *)

\* str(x)[:256]
Label256(x) == Prefix(x, VAR_LABEL_MAX_LEN)

FillMissingLabelsNever(final_labels, keys, column_name_map) == final_labels

RECURSIVE FillMissingLabels(_, _, _)
FillMissingLabels(final_labels, keys, column_name_map) ==
    IF keys = <<>> THEN final_labels
    ELSE LET key == Head(keys)
         IN  FillMissingLabels(
                 IF HasKey(final_labels, key) THEN final_labels
                 ELSE Put(final_labels, key, Label256(Get(column_name_map, key, key))),
                 Tail(keys), column_name_map)

generate_variable_labels_llm(column_name_map, raw) ==
    IF raw.t = "fail" THEN [ok |-> FALSE, map |-> <<>>]
    ELSE [ok |-> TRUE,
          map |-> FillMissingLabels(
                      PutAll(<<>>, [i \in 1..Len(raw.items) |->
                                      <<raw.items[i][1], Label256(raw.items[i][2])>>]),
                      [i \in 1..Len(column_name_map) |-> column_name_map[i][1]],
                      column_name_map)]

\* lines 395-403 and 417-424: current name -> original question
RECURSIVE CurrentToOriginal(_, _, _, _)
CurrentToOriginal(o2s, df, do_simplify_cols, acc) ==
    IF o2s = <<>> THEN acc
    ELSE LET original_q_name == o2s[1][1]
             current_df_proc_name == o2s[1][2]
         IN  CurrentToOriginal(Tail(o2s), df, do_simplify_cols,
                 IF HasCol(df, current_df_proc_name)
                 THEN Put(acc, current_df_proc_name, original_q_name)
                 ELSE IF ~do_simplify_cols /\ HasCol(df, original_q_name)
                      THEN Put(acc, original_q_name, original_q_name)
                      ELSE acc)

\* lines 405-406
OrIdentityMap(m, df) ==
    IF m = <<>> THEN [i \in 1..Len(df) |-> <<df[i].name, df[i].name>>] ELSE m

map_current_name_to_original_question(o2s, df, do_simplify_cols) ==
    OrIdentityMap(CurrentToOriginal(o2s, df, do_simplify_cols, <<>>), df)

FirstOriginalOfCurrent(o2s, col, default) == default

FirstOriginalOfLoadedFirst(o2s, col, default) ==
    IF \E i \in 1..Len(o2s) : o2s[i][1] = col THEN col
    ELSE IF \E i \in 1..Len(o2s) : o2s[i][2] = col
         THEN o2s[CHOOSE i \in 1..Len(o2s) : o2s[i][2] = col][1]
         ELSE default

\* the first original name whose current name is col (lines 432-435, 450-453)
FirstOriginalOf(o2s, col, default) ==
    IF \E i \in 1..Len(o2s) : o2s[i][2] = col
    THEN o2s[CHOOSE i \in 1..Len(o2s) :
                /\ o2s[i][2] = col
                /\ \A j \in 1..(i - 1) : o2s[j][2] # col][1]
    ELSE default

----------------------------------------------------------------------------
(* Export block: final sanitization (lines 589-625) *)

FinalVariableLabelsByOldName(names, finals, labels, acc) ==
    [i \in 1..Len(names) |-> <<names[i], Get(labels, names[i], Label256(names[i]))>>]

\* final_spss_variable_labels_for_sav
RECURSIVE FinalVariableLabels(_, _, _, _)
FinalVariableLabels(names, finals, labels, acc) ==
    IF Len(acc) = Len(names) THEN acc
    ELSE LET i == Len(acc) + 1
         IN  FinalVariableLabels(names, finals, labels,
                 Append(acc, <<finals[i], Get(labels, names[i], Label256(names[i]))>>))

FinalValueLabelsByOldName(names, finals, value_labels, i) ==
    SelectSeq([k \in 1..Len(names) |-> <<names[k], Get(value_labels, names[k], <<>>)>>],
              LAMBDA e : HasKey(value_labels, e[1]))

\* final_spss_value_labels_for_sav
RECURSIVE FinalValueLabels(_, _, _, _)
FinalValueLabels(names, finals, value_labels, i) ==
    IF i > Len(names) THEN <<>>
    ELSE (IF HasKey(value_labels, names[i])
          THEN <<<<finals[i], Get(value_labels, names[i], <<>>)>>>>
          ELSE <<>>) \o FinalValueLabels(names, finals, value_labels, i + 1)

\* column_labels_list_for_sav
column_labels_list_for_sav(finals, final_labels) ==
    [i \in 1..Len(finals) |-> Get(final_labels, finals[i], Label256(finals[i]))]

----------------------------------------------------------------------------
(* Export block: missing-value classification (lines 628-668) *)

\* the text is a number for pd.to_numeric
ParsesAsNumber(s) == s # <<>> /\ \A i \in 1..Len(s) : s[i] \in AsciiDigit

RECURSIVE NatOfStr(_)
NatOfStr(s) ==
    IF s = <<>> THEN 0
    ELSE 10 * NatOfStr(SubSeq(s, 1, Len(s) - 1))
         + (CHOOSE d \in 0..9 : StrOfNat(d) = <<s[Len(s)]>>)

\* pd.to_numeric(cell, errors='coerce')
ToNumeric(cell) ==
    IF cell.k = "num" THEN cell
    ELSE IF cell.k = "str" /\ ParsesAsNumber(cell.s) THEN Num(NatOfStr(cell.s))
    ELSE Null

\* pd.isna(x) or (isinstance(x, str) and x.lower() == 'nan')
IsNaOrNanText(cell) ==
    \/ IsNull(cell)
    \/ cell.k = "str" /\ [i \in 1..Len(cell.s) |-> ToLower(cell.s[i])] = nan

\* one column of df_to_write after the loop body, and whether it got ['nan']
\* lines 640-650: numeric_series.isnull().all(), is_potentially_numeric
AllNull(numeric_series) ==
    \A r \in 1..Len(numeric_series) : IsNull(numeric_series[r])

is_potentially_numeric(c, numeric_series) ==
    \/ AllNull(numeric_series)
    \/ \A r \in 1..Len(c.vals) :
           IsNull(numeric_series[r]) => IsNaOrNanText(c.vals[r])

ClassifyObjectKeepsText(c, numeric_series) ==
    [col |-> [c EXCEPT !.vals = [r \in 1..Len(c.vals) |-> Txt(StrOfCell(c.vals[r]))]],
     missing |-> TRUE]

ClassifyObject(c, numeric_series) ==
    IF is_potentially_numeric(c, numeric_series) /\ ~AllNull(numeric_series)
    THEN [col |-> [c EXCEPT !.dtype = "float64", !.vals = numeric_series],
          missing |-> FALSE]
    ELSE [col |-> [c EXCEPT !.vals =
                      [r \in 1..Len(c.vals) |-> Txt(StrOfCell(c.vals[r]))]],
          missing |-> TRUE]

ClassifyColumnDeclaresAll(c) ==
    IF c.dtype = "object"
    THEN ClassifyObject(c, [r \in 1..Len(c.vals) |-> ToNumeric(c.vals[r])] \o <<>>)
    ELSE [col |-> c, missing |-> TRUE]

ClassifyColumn(c) ==
    IF c.dtype = "object"
    THEN ClassifyObject(c, [r \in 1..Len(c.vals) |-> ToNumeric(c.vals[r])] \o <<>>)
    ELSE [col |-> c, missing |-> FALSE]

\* spss_missing_ranges: ['nan'] for every column the loop treated as string
RECURSIVE MissingRanges(_, _, _)
MissingRanges(classified, finals, i) ==
    IF i > Len(classified) THEN <<>>
    ELSE (IF classified[i].missing THEN <<<<finals[i], <<nan>>>>>> ELSE <<>>)
         \o MissingRanges(classified, finals, i + 1)

----------------------------------------------------------------------------
(* Log entries *)

Msg(m) == [msg |-> m]
MsgCol(m, col) == [msg |-> m, col |-> col]
MsgColN(m, col, n) == [msg |-> m, col |-> col, n |-> n]

----------------------------------------------------------------------------
(* Inputs: strings *)

InputChars == {"a", "Q", "1", "_", "-", " ", "(", "U+00F1", "U+00B2"}

RECURSIVE StringsUpTo(_, _)
StringsUpTo(chars, n) ==
    IF n = 0 THEN {<<>>}
    ELSE LET shorter == StringsUpTo(chars, n - 1)
         IN  shorter \cup {s \o <<c>> : s \in {t \in shorter : Len(t) = n - 1}, c \in chars}

\* n copies of c
Repeat(c, n) == [i \in 1..n |-> c]

\* strings around the truncation point: head, padding, tail
LongStrings ==
    {h \o Repeat("x", n) \o t :
        h \in {<<>>, <<"1">>, <<" ">>, <<"(">>},
        n \in (SPSS_VAR_NAME_MAX_LEN - 3)..(SPSS_VAR_NAME_MAX_LEN + 1),
        t \in {<<>>, <<"a">>, <<"-", "b">>, <<" ", " ">>}}

SanitizerInputs == StringsUpTo(InputChars, MaxLen) \cup LongStrings

----------------------------------------------------------------------------
(* Inputs: tables *)

nQ1pa == <<"Q", "1", " ", "(", "a", ")">>
nQ1da == <<"Q", "1", "-", "a">>
nQ2 == <<"Q", "2">>
nQ2num == <<"Q", "2", "_", "n", "u", "m">>
nAno == <<"A", "U+00F1", "o">>
nLongA == Repeat("x", SPSS_VAR_NAME_MAX_LEN) \o <<"a">>
nLongB == Repeat("x", SPSS_VAR_NAME_MAX_LEN) \o <<"b">>
nN == <<"N">>
nQ3 == <<"Q", "3">>
nQ4 == <<"Q", "4">>
nLongQ == Repeat("q", VAR_LABEL_MAX_LEN + 1)

cA == Txt(<<"a">>)
cB == Txt(<<"b">>)
cSpA == Txt(<<" ", "a">>)
cEmpty == Txt(<<>>)
c1 == Txt(<<"1">>)
c2 == Txt(<<"2">>)
\* "c01", "c02", ...
cNN(n) == Txt(<<"c">> \o (IF n < 10 THEN <<"0">> ELSE <<>>) \o StrOfNat(n))

Column(name, dtype, vals) == [name |-> name, dtype |-> dtype, vals |-> vals]

\* columns of three rows
ShortCols ==
    << Column(nQ1pa, "object", <<cA, cB, cA>>),
       Column(nQ1da, "object", <<cB, Null, cA>>),
       Column(nQ2, "object", <<cA, cSpA, cEmpty>>),
       Column(nQ2num, "int64", <<Num(1), Num(2), Num(3)>>),
       Column(nAno, "object", <<Null, Null, Null>>),
       Column(nLongA, "object", <<cA, cA, cA>>),
       Column(nLongB, "float64", <<Num(1), Null, Num(2)>>),
       Column(nN, "object", <<c1, c2, Null>>) >>

\* columns of MAX_CATEGORIAS_PARA_LLM + 1 rows: one category too many, and
\* exactly as many categories as the limit admits
LongCols ==
    << Column(nQ3, "object", [r \in 1..(MAX_CATEGORIAS_PARA_LLM + 1) |-> cNN(r)]),
       Column(nQ4, "object",
              [r \in 1..(MAX_CATEGORIAS_PARA_LLM + 1) |->
                  IF r <= MAX_CATEGORIAS_PARA_LLM THEN cNN(r) ELSE cNN(1)]) >>

\* the uploaded tables of the runs
Tables ==
    { \* two names that sanitize to one, two columns with one category set
      <<ShortCols[1], ShortCols[2]>>,
      \* untrimmed and empty cells, and a numeric column that holds the name
      \* the derive mode would choose
      <<ShortCols[3], ShortCols[4]>>,
      \* no category, one category, and two names equal up to character 64
      <<ShortCols[5], ShortCols[6], ShortCols[7]>>,
      \* numbers kept as text
      <<ShortCols[8], ShortCols[2]>>,
      \* one category more than the limit, and exactly the limit
      <<LongCols[1], LongCols[2]>>,
      \* a question text longer than a variable label may be
      <<Column(nLongQ, "object", <<cA, cB, cA>>), ShortCols[2]>> }

\* the tables of the session runs: two columns with one category set, and
\* two columns with different ones
SessionTables == {<<ShortCols[1], ShortCols[2]>>, <<ShortCols[8], ShortCols[2]>>}

\* names of the runs of the final pass alone: four that sanitize to "Q1_a"
\* or to what the loop makes of it, three that share their first 62 characters
nQ1ua == <<"Q", "1", "_", "a">>
nQ1ua1 == <<"Q", "1", "_", "a", "_", "1">>
nLong1 == Repeat("x", SPSS_VAR_NAME_MAX_LEN - 2) \o <<"_", "1">>

NamePool == <<nQ1pa, nQ1da, nQ1ua, nQ1ua1, nLongA, nLongB, nLong1>>

\* the sequences of n positions of NamePool
RECURSIVE Arrangements(_)
Arrangements(n) ==
    IF n = 0 THEN {<<>>}
    ELSE {Append(a, k) : a \in Arrangements(n - 1), k \in 1..Len(NamePool)}

\* tables of one to MaxNames numeric columns with different names
NameTables ==
    {[i \in 1..Len(a) |-> Column(NamePool[a[i]], "int64", <<Num(i)>>)] :
        a \in {b \in UNION {Arrangements(n) : n \in 1..MaxNames} :
                  \A i, j \in 1..Len(b) : i # j => b[i] # b[j]}}

cNAN == Txt(<<"N", "A", "N">>)

\* the cells of a text column the classifier tells apart: no value, a
\* number, a text, and a text that reads "nan" in another case
ClassifyCells == {Null, c1, c2, cA, cNAN}

\* tables of one column: a text column of up to MaxRows cells, or a column
\* loaded as numbers
ClassifyTables ==
    {<<Column(nN, "object", vals)>> :
        vals \in UNION {[1..n -> ClassifyCells] : n \in 1..MaxRows}}
    \cup {<<Column(nN, "float64", <<Num(1), Null>>)>>,
          <<Column(nN, "int64", <<Num(1), Num(2)>>)>>}

OptionSets ==
    {o \in [simplify : BOOLEAN, labels : BOOLEAN, encode : BOOLEAN,
            mode : {"derive", "replace"}, client : BOOLEAN] :
        \* lines 298-305: the mode radio exists only when encoding is chosen
        ~o.encode => o.mode = "derive"}

\* the options of the session runs: encoding with a client, in either mode
SessionOptionSets ==
    {o \in OptionSets : o.encode /\ o.client /\ ~o.simplify /\ ~o.labels}

\* the options of the classifier runs: no renaming and no label generation,
\* encoding off or on with a client, in either mode
ClassifyOptionSets ==
    {o \in OptionSets : ~o.simplify /\ ~o.labels /\ (o.encode <=> o.client)}

----------------------------------------------------------------------------
(* Inputs: what the collaborators answer *)

pQ1 == <<"Q", " ", "1">>
pLong == Repeat("y", SPSS_VAR_NAME_MAX_LEN + 2)
kExtra == <<"z", "z">>
\* a key longer than a value label may be
kLong == Repeat("k", VALUE_LABEL_MAX_LEN + 1)

\* Name Simplifier: failure, no names, the same name for every column, a
\* name too long for the first column only together with an unknown key,
\* for every column the name the next column was loaded with
SimplifierResponses(column_names_list) ==
    { RawFail,
      RawDict(<<>>),
      RawDict([i \in 1..Len(column_names_list) |-> <<column_names_list[i], pQ1>>]),
      RawDict(<<<<column_names_list[1], pLong>>, <<kExtra, pQ1>>>>),
      RawDict([i \in 1..Len(column_names_list) |->
                  <<column_names_list[i],
                    column_names_list[(i % Len(column_names_list)) + 1]>>]) }

LabelText(key) == <<"L", " ">> \o key

\* Label Generator: failure, no labels, a label for the first key only
\* together with an unknown key, a label for every key
LabelResponses(column_name_map) ==
    { RawFail,
      RawDict(<<>>),
      RawDict(<<<<column_name_map[1][1], LabelText(column_name_map[1][1])>>,
                <<kExtra, LabelText(kExtra)>>>>),
      RawDict([i \in 1..Len(column_name_map) |->
                  <<column_name_map[i][1], LabelText(column_name_map[i][1])>>]) }

\* Advisor, for the categories cats (at least two)
AdvisorResponses(cats) ==
    LET n == Len(cats)
        full == [i \in 1..n |-> <<cats[i], JInt(i)>>]
    IN  { RawFail,
          [t |-> "list"],
          [t |-> "empty"],
          \* not ordinal
          SugDict(FALSE, NotADict),
          \* ordinal without a mapping
          SugDict(TRUE, NotADict),
          \* every category mapped
          SugDict(TRUE, Dict(full)),
          \* the last category missing; the key "nan" and two unknown keys added
          SugDict(TRUE, Dict(SubSeq(full, 1, n - 1)
                             \o <<<<nan, JInt(97)>>, <<kExtra, JInt(98)>>,
                                  <<kLong, JInt(99)>>>>)),
          \* two categories on one number, floats and digit strings
          SugDict(TRUE, Dict([i \in 1..n |->
              <<cats[i], IF i = 1 THEN JInt(1)
                         ELSE IF i = 2 THEN JFloat(1) ELSE JNumStr(i)>>])),
          \* one value that is no number
          SugDict(TRUE, Dict([i \in 1..n |->
              <<cats[i], IF i = 1 THEN JBadStr ELSE JInt(i)>>])),
          \* no value that is a number
          SugDict(TRUE, Dict([i \in 1..n |-> <<cats[i], JBadStr>>])),
          \* a null value
          SugDict(TRUE, Dict([i \in 1..n |->
              <<cats[i], IF i = 1 THEN JNull ELSE JInt(i)>>])) }

----------------------------------------------------------------------------
(* The "Procesar Datos" handler (lines 325-575), one step per action *)

vars == <<name_in, name_out, name_out2, df_original, opts,
          ss_df_processed, ss_variable_labels, ss_value_labels, cache,
          log_messages, pc, df_processed, spss_variable_labels_dict,
          spss_value_labels_dict, original_to_simplified_map_for_labels,
          columnas_a_evaluar, col_i, sav, advisor_calls, runs_left, reruns_left>>

sanitizer_vars == <<name_in, name_out, name_out2>>
session_vars == <<ss_df_processed, ss_variable_labels, ss_value_labels>>

NoTable == [set |-> FALSE]
Table(df) == [set |-> TRUE, df |-> df]

ProcessStartKeepsLog ==
    /\ pc = "idle"
    /\ runs_left > 0
    /\ runs_left' = runs_left - 1
    /\ reruns_left' = MaxReruns
    /\ opts' \in OptionSets
    /\ df_processed' = df_original
    /\ spss_variable_labels_dict' = <<>>
    /\ spss_value_labels_dict' = <<>>
    /\ original_to_simplified_map_for_labels' =
           [i \in 1..Len(df_original) |-> <<df_original[i].name, df_original[i].name>>]
    /\ columnas_a_evaluar' = <<>>
    /\ col_i' = 1
    /\ pc' = "simplify"
    /\ UNCHANGED <<sanitizer_vars, session_vars, df_original, cache, sav, advisor_calls,
                   log_messages>>

\* lines 327-332
ProcessStart ==
    /\ pc = "idle"
    /\ runs_left > 0
    /\ runs_left' = runs_left - 1
    /\ reruns_left' = MaxReruns
    /\ opts' \in OptionSets
    /\ df_processed' = df_original
    /\ log_messages' = <<>>
    /\ spss_variable_labels_dict' = <<>>
    /\ spss_value_labels_dict' = <<>>
    /\ original_to_simplified_map_for_labels' =
           [i \in 1..Len(df_original) |-> <<df_original[i].name, df_original[i].name>>]
    /\ columnas_a_evaluar' = <<>>
    /\ col_i' = 1
    /\ pc' = "simplify"
    /\ UNCHANGED <<sanitizer_vars, session_vars, df_original, cache, sav, advisor_calls>>

\* lines 335-389
SimplifyStep ==
    /\ pc = "simplify"
    /\ pc' = "labels"
    /\ IF ~opts.simplify
       THEN UNCHANGED <<df_processed, original_to_simplified_map_for_labels, log_messages>>
       ELSE LET original_column_names_list == ColNames(df_processed)
            IN  \E raw \in (IF opts.client
                            THEN SimplifierResponses(original_column_names_list)
                            ELSE {RawFail}) :
                \E simplified_names_map_llm \in
                       {simplify_survey_column_names_llm(original_column_names_list, raw)} :
                \E llm \in {/\ opts.client
                            /\ simplified_names_map_llm.ok
                            /\ simplified_names_map_llm.map # <<>>} :
                \E unique \in {UniqueBatch(
                       [i \in 1..Len(original_column_names_list) |->
                           IF llm
                           THEN Get(simplified_names_map_llm.map,
                                    original_column_names_list[i],
                                    basic_column_simplifier(original_column_names_list[i]))
                           ELSE basic_column_simplifier(original_column_names_list[i])])} :
                      /\ df_processed' = RenameCols(df_processed, unique)
                      /\ original_to_simplified_map_for_labels' =
                             [i \in 1..Len(unique) |->
                                 <<original_column_names_list[i], unique[i]>>]
                      /\ log_messages' = log_messages \o
                             <<Msg("simplify: start"),
                               Msg(IF llm THEN "simplify: names of the LLM applied"
                                   ELSE IF opts.client
                                        THEN "simplify: LLM failed, basic fallback"
                                        ELSE "simplify: no client, basic fallback"),
                               Msg("simplify: end")>>
    /\ UNCHANGED <<sanitizer_vars, session_vars, df_original, opts, cache,
                   spss_variable_labels_dict, spss_value_labels_dict,
                   columnas_a_evaluar, col_i, sav, advisor_calls, runs_left, reruns_left>>

\* lines 439-442 and 556-560: what precedes and what replaces the encoding loop
EncodePrologue(log) ==
    IF opts.encode
    THEN IF opts.client
         THEN /\ log_messages' = log \o <<Msg("encode: start")>>
              /\ columnas_a_evaluar' = ColNames(df_processed)
              /\ pc' = "encode"
         ELSE /\ log_messages' = log \o
                     <<Msg("encode: start"), Msg("encode: no client"), Msg("encode: end")>>
              /\ columnas_a_evaluar' = <<>>
              /\ pc' = "commit"
    ELSE /\ log_messages' = log \o <<Msg("encode: omitted by the user")>>
         /\ columnas_a_evaluar' = <<>>
         /\ pc' = "commit"

\* lines 392-436, then the prologue of the encoding step
LabelsStep ==
    /\ pc = "labels"
    /\ \E question \in {map_current_name_to_original_question(
                            original_to_simplified_map_for_labels, df_processed,
                            opts.simplify)} :
       LET o2s == original_to_simplified_map_for_labels
           fallback == [i \in 1..Len(df_processed) |->
                           <<df_processed[i].name,
                             Label256(Get(question, df_processed[i].name,
                                          df_processed[i].name))>>]
       IN  IF opts.labels
           THEN IF opts.client
                THEN \E raw \in LabelResponses(question) :
                     \E generated_labels \in {generate_variable_labels_llm(question, raw)} :
                       LET use == generated_labels.ok /\ generated_labels.map # <<>>
                       IN  /\ spss_variable_labels_dict' =
                                  IF use THEN generated_labels.map ELSE fallback
                           /\ EncodePrologue(log_messages \o
                                  <<Msg("labels: start"),
                                    Msg(IF use THEN "labels: generated by the LLM"
                                        ELSE "labels: LLM failed, original question"),
                                    Msg("labels: end")>>)
                ELSE /\ spss_variable_labels_dict' = fallback
                     /\ EncodePrologue(log_messages \o
                            <<Msg("labels: start"),
                              Msg("labels: no client, original question"),
                              Msg("labels: end")>>)
           ELSE /\ spss_variable_labels_dict' =
                       [i \in 1..Len(df_processed) |->
                           <<df_processed[i].name,
                             Label256(FirstOriginalOf(o2s, df_processed[i].name,
                                                      df_processed[i].name))>>]
                /\ EncodePrologue(log_messages \o <<Msg("labels: omitted by the user")>>)
    /\ col_i' = 1
    /\ UNCHANGED <<sanitizer_vars, session_vars, df_original, opts, cache, df_processed,
                   spss_value_labels_dict, original_to_simplified_map_for_labels,
                   sav, advisor_calls, runs_left, reruns_left>>

Numerico == <<" ", "(", "N", "u", "m", "U+00E9", "r", "i", "c", "o", ")">>

\* the loop moves to the next column, or ends (lines 555-558)
NextColumn(log) ==
    /\ col_i' = col_i + 1
    /\ IF col_i = Len(columnas_a_evaluar)
       THEN /\ log_messages' = log \o <<Msg("encode: end")>>
            /\ pc' = "commit"
       ELSE /\ log_messages' = log
            /\ pc' = "encode"

\* a "continue" of the loop: nothing but the log changes
SkipColumn(log) ==
    /\ NextColumn(log)
    /\ UNCHANGED <<df_processed, spss_variable_labels_dict, spss_value_labels_dict,
                   cache, advisor_calls, session_vars>>

\* lines 491-553: what the loop does with the suggestion for the column
ApplySuggestion(col, nombre_col_df_original, sugerencia, log) ==
    IF SuggestsEncoding(sugerencia)
    THEN \E items \in {sugerencia.mapping_dict.items} :
         \E mapeo \in {mapeo_texto_a_numero(items)} :
         \E omitted \in {SelectSeq(items, LAMBDA e : ~IntOk(e[2]))} :
         LET etiquetas == etiquetas_valor(items)
             log1 == log \o [i \in 1..Len(omitted) |->
                               MsgCol("encode: value is no number, category omitted",
                                      omitted[i][1])]
         IN  IF mapeo = <<>>
             THEN /\ NextColumn(log1 \o <<MsgCol("encode: no valid mapping", col)>>)
                  /\ UNCHANGED <<df_processed, spss_variable_labels_dict,
                                 spss_value_labels_dict>>
             ELSE \E destino \in
                         {columna_destino_spss_name(opts.mode, col,
                                                    Range(ColNames(df_processed)))} :
                  \E encoded \in
                         {MapColumn(source_column_for_mapping(
                                        Col(df_original, nombre_col_df_original).vals),
                                    mapeo) \o <<>>} :
                  \E unmapped \in
                         {Cardinality({r \in 1..Len(encoded) : IsNull(encoded[r])})} :
                  LET derive == opts.mode = "derive"
                  IN  /\ df_processed' =
                             SetCol(df_processed, destino, "Int64", encoded)
                      /\ spss_variable_labels_dict' =
                             IF derive
                             THEN Put(spss_variable_labels_dict, destino,
                                      Label256(Get(spss_variable_labels_dict, col, col)
                                               \o Numerico))
                             ELSE spss_variable_labels_dict
                      /\ spss_value_labels_dict' =
                             Put(spss_value_labels_dict, destino, etiquetas)
                      /\ NextColumn(log1 \o
                             <<MsgCol(IF derive THEN "encode: mapped to a new column"
                                      ELSE "encode: values replaced",
                                      destino)>> \o
                             (IF unmapped > 0
                              THEN <<MsgColN("encode: values not mapped",
                                             destino, unmapped)>>
                              ELSE <<>>))
    ELSE /\ NextColumn(log \o
                <<MsgCol(IF Truthy(sugerencia) /\ ~sugerencia.is_ordinal
                         THEN "encode: not ordinal"
                         ELSE IF Truthy(sugerencia)
                              THEN "encode: no mapping dict"
                              ELSE "encode: no suggestion", col)>>)
         /\ UNCHANGED <<df_processed, spss_variable_labels_dict, spss_value_labels_dict>>

\* lines 571-575: an exception escaped the handler
ProcessFailsKeepsTable(log) ==
    /\ log_messages' = log \o <<Msg("ERROR FATAL")>>
    /\ pc' = "idle"
    /\ UNCHANGED <<session_vars, df_processed,
                   spss_variable_labels_dict, spss_value_labels_dict, col_i>>

ProcessFails(log) ==
    /\ ss_df_processed' = NoTable
    /\ log_messages' = log \o <<Msg("ERROR FATAL")>>
    /\ pc' = "idle"
    /\ UNCHANGED <<ss_variable_labels, ss_value_labels, df_processed,
                   spss_variable_labels_dict, spss_value_labels_dict, col_i>>

\* lines 445-553: one iteration of the encoding loop
EncodeColumn ==
    /\ pc = "encode"
    /\ col_i <= Len(columnas_a_evaluar)
    /\ LET col_actual_en_df_proc == columnas_a_evaluar[col_i]
           o2s == original_to_simplified_map_for_labels
           mapped == \E i \in 1..Len(o2s) : o2s[i][2] = col_actual_en_df_proc
           found == mapped \/ HasCol(df_original, col_actual_en_df_proc)
           nombre_col_df_original ==
               FirstOriginalOf(o2s, col_actual_en_df_proc, col_actual_en_df_proc)
           log0 == log_messages \o <<MsgCol("encode: column", col_actual_en_df_proc)>>
       IN  IF ~found \/ ~HasCol(df_original, nombre_col_df_original)
           THEN SkipColumn(log0 \o
                    <<MsgCol("encode: original column not found", col_actual_en_df_proc)>>)
           ELSE IF is_numeric_dtype(Col(df_original, nombre_col_df_original).dtype)
           THEN SkipColumn(log0 \o
                    <<MsgCol("encode: skipped, numeric", col_actual_en_df_proc)>>)
           ELSE \E cats \in {categorias_unicas(
                                  Col(df_original, nombre_col_df_original).vals)} :
                \E cached \in {CacheGet(cache, cats)} :
                LET clave_cache == cats
                IN  IF SizeGateSkips(cats)
                    THEN SkipColumn(log0 \o
                             <<IF cats = <<>>
                               THEN MsgCol("encode: skipped, no categories",
                                           col_actual_en_df_proc)
                               ELSE MsgColN("encode: skipped, category count",
                                            col_actual_en_df_proc, Len(cats))>>)
                    ELSE IF Truthy(cached)
                    THEN /\ ApplySuggestion(col_actual_en_df_proc, nombre_col_df_original,
                                cached,
                                log0 \o <<MsgCol("encode: cached suggestion used",
                                                 col_actual_en_df_proc)>>)
                         /\ UNCHANGED <<cache, advisor_calls, session_vars>>
                    ELSE \E raw \in AdvisorResponses(cats) :
                           LET log1 == log0 \o <<MsgCol("encode: LLM asked",
                                                        col_actual_en_df_proc)>>
                           IN  /\ advisor_calls' = Append(advisor_calls,
                                      [col |-> col_actual_en_df_proc,
                                       categories |-> cats, raw |-> raw])
                               /\ IF AdvisorRaises(raw)
                                  THEN /\ ProcessFails(log1)
                                       /\ UNCHANGED cache
                                  ELSE \E sugerencia \in {get_llm_mapping_suggestion(raw)} :
                                           /\ cache' = CacheStore(cache, clave_cache, sugerencia)
                                           /\ ApplySuggestion(col_actual_en_df_proc,
                                                  nombre_col_df_original, sugerencia, log1)
                                           /\ UNCHANGED session_vars
    /\ UNCHANGED <<sanitizer_vars, df_original, opts, original_to_simplified_map_for_labels,
                   columnas_a_evaluar, sav, runs_left, reruns_left>>

\* lines 563-565
Commit ==
    /\ pc = "commit"
    /\ ss_df_processed' = Table(df_processed)
    /\ ss_variable_labels' = spss_variable_labels_dict
    /\ ss_value_labels' = spss_value_labels_dict
    /\ pc' = "export"
    /\ UNCHANGED <<sanitizer_vars, df_original, opts, cache, log_messages, df_processed,
                   spss_variable_labels_dict, spss_value_labels_dict,
                   original_to_simplified_map_for_labels, columnas_a_evaluar, col_i,
                   sav, advisor_calls, runs_left, reruns_left>>

----------------------------------------------------------------------------
(* The export block (lines 578-718): it runs at the end of the script run   *)
(* that processed, and again on every rerun of the script                   *)

SessionTableShared(session_table, df_to_write) == Table(df_to_write)

\* line 583: df_to_write is a copy of the session's table, so what the block
\* does to df_to_write (lines 619, 649, 652) does not reach the session
SessionTableAfterExport(session_table, df_to_write) == session_table

NotCalled == [called |-> FALSE]

Export ==
    /\ \/ pc = "export"
       \/ pc = "idle" /\ reruns_left > 0
    /\ ss_df_processed.set
    /\ \E current_col_names_before_final_sanitize \in
              {ColNames(ss_df_processed.df) \o <<>>} :
       \E finals \in {final_sav_column_names(current_col_names_before_final_sanitize)} :
       \E classified \in
              {[i \in 1..Len(finals) |->
                   ClassifyColumn([ss_df_processed.df[i] EXCEPT !.name = finals[i]])]
               \o <<>>} :
       \E final_spss_variable_labels_for_sav \in
              {FinalVariableLabels(current_col_names_before_final_sanitize, finals,
                                   ss_variable_labels, <<>>)} :
       \E written \in BOOLEAN :
         LET df_to_write == [i \in 1..Len(classified) |-> classified[i].col]
             final_spss_value_labels_for_sav ==
                 FinalValueLabels(current_col_names_before_final_sanitize, finals,
                                  ss_value_labels, 1)
             changed == SelectSeq([i \in 1..Len(finals) |->
                                      <<current_col_names_before_final_sanitize[i],
                                        finals[i]>>],
                                  LAMBDA e : e[1] # e[2])
             sanitization_log_messages ==
                 <<Msg("final: start")>>
                 \o [i \in 1..Len(changed) |-> MsgCol("final: renamed", changed[i][2])]
                 \o <<Msg("final: names applied")>>
                 \o [i \in 1..Len(classified) |->
                        MsgCol(IF classified[i].missing
                               THEN "final: string, missing range nan"
                               ELSE "final: numeric", finals[i])]
                 \o <<Msg("final: end")>>
         IN  /\ sav' = [called |-> TRUE,
                        written |-> written,
                        df |-> df_to_write,
                        column_labels |->
                            column_labels_list_for_sav(finals,
                                                       final_spss_variable_labels_for_sav),
                        variable_value_labels |-> final_spss_value_labels_for_sav,
                        missing_ranges |-> MissingRanges(classified, finals, 1),
                        final_variable_labels |-> final_spss_variable_labels_for_sav]
             /\ log_messages' = log_messages \o sanitization_log_messages \o
                    (IF written THEN <<>> ELSE <<Msg("ERROR FATAL .SAV")>>)
             /\ ss_df_processed' = SessionTableAfterExport(ss_df_processed, df_to_write)
    /\ pc' = "idle"
    /\ reruns_left' = IF pc = "idle" THEN reruns_left - 1 ELSE reruns_left
    /\ UNCHANGED <<sanitizer_vars, ss_variable_labels, ss_value_labels,
                   df_original, opts, cache, df_processed,
                   spss_variable_labels_dict, spss_value_labels_dict,
                   original_to_simplified_map_for_labels, columnas_a_evaluar, col_i,
                   advisor_calls, runs_left>>

----------------------------------------------------------------------------
(* Specifications *)

\* the session before the first process invocation (lines 307-312)
SessionStart ==
    /\ ss_df_processed = NoTable
    /\ ss_variable_labels = <<>>
    /\ ss_value_labels = <<>>
    /\ cache = <<>>
    /\ log_messages = <<>>
    /\ advisor_calls = <<>>
    /\ sav = NotCalled

HandlerIdle ==
    /\ pc = "idle"
    /\ opts \in {o \in OptionSets : ~o.simplify /\ ~o.labels /\ ~o.encode /\ ~o.client}
    /\ df_processed = <<>>
    /\ spss_variable_labels_dict = <<>>
    /\ spss_value_labels_dict = <<>>
    /\ original_to_simplified_map_for_labels = <<>>
    /\ columnas_a_evaluar = <<>>
    /\ col_i = 1

NoSanitizerRun ==
    /\ name_in = <<>>
    /\ name_out = NONE
    /\ name_out2 = NONE

\* one process invocation on any table, then the exports
Init ==
    /\ NoSanitizerRun
    /\ df_original \in Tables
    /\ SessionStart
    /\ HandlerIdle
    /\ runs_left = 1
    /\ reruns_left = 0

Next == ProcessStart \/ SimplifyStep \/ LabelsStep \/ EncodeColumn \/ Commit \/ Export

Spec == Init /\ [][Next]_vars

\* a session of several process invocations on one table
InitSession ==
    /\ NoSanitizerRun
    /\ df_original \in SessionTables
    /\ SessionStart
    /\ HandlerIdle
    /\ runs_left = MaxRuns
    /\ reruns_left = 0

ProcessStartSession == ProcessStart /\ opts' \in SessionOptionSets

NextSession ==
    ProcessStartSession \/ SimplifyStep \/ LabelsStep \/ EncodeColumn \/ Commit \/ Export

SpecSession == InitSession /\ [][NextSession]_vars

\* the final pass alone: the session as a process invocation with every
\* step switched off commits it (lines 432-436, 560-565), for any table of
\* up to MaxNames columns
InitFinalPass ==
    /\ NoSanitizerRun
    /\ df_original \in NameTables
    /\ opts = [simplify |-> FALSE, labels |-> FALSE, encode |-> FALSE,
               mode |-> "derive", client |-> FALSE]
    /\ df_processed = df_original
    /\ original_to_simplified_map_for_labels =
           [i \in 1..Len(df_original) |-> <<df_original[i].name, df_original[i].name>>]
    /\ spss_variable_labels_dict =
           [i \in 1..Len(df_original) |->
               <<df_original[i].name, Label256(df_original[i].name)>>]
    /\ spss_value_labels_dict = <<>>
    /\ columnas_a_evaluar = <<>>
    /\ col_i = 1
    /\ log_messages = <<Msg("labels: omitted by the user"),
                        Msg("encode: omitted by the user")>>
    /\ ss_df_processed = Table(df_processed)
    /\ ss_variable_labels = spss_variable_labels_dict
    /\ ss_value_labels = spss_value_labels_dict
    /\ cache = <<>>
    /\ advisor_calls = <<>>
    /\ sav = NotCalled
    /\ pc = "export"
    /\ runs_left = 0
    /\ reruns_left = MaxReruns

NextFinalPass == Export

SpecFinalPass == InitFinalPass /\ [][NextFinalPass]_vars

\* one process invocation on a table of one column, then the exports
InitClassify ==
    /\ NoSanitizerRun
    /\ df_original \in ClassifyTables
    /\ SessionStart
    /\ HandlerIdle
    /\ runs_left = 1
    /\ reruns_left = 0

ProcessStartClassify == ProcessStart /\ opts' \in ClassifyOptionSets

NextClassify ==
    ProcessStartClassify \/ SimplifyStep \/ LabelsStep \/ EncodeColumn \/ Commit \/ Export

SpecClassify == InitClassify /\ [][NextClassify]_vars

\* sanitizer runs: name_out = sanitize(name_in), name_out2 = sanitize(name_out)
InitSanitize ==
    /\ name_in \in SanitizerInputs
    /\ name_out = NONE
    /\ name_out2 = NONE
    /\ df_original = <<>>
    /\ SessionStart
    /\ HandlerIdle
    /\ runs_left = 0
    /\ reruns_left = 0

pipeline_vars == <<df_original, opts, ss_df_processed, ss_variable_labels, ss_value_labels,
                   cache, log_messages, pc, df_processed, spss_variable_labels_dict,
                   spss_value_labels_dict, original_to_simplified_map_for_labels,
                   columnas_a_evaluar, col_i, sav, advisor_calls, runs_left, reruns_left>>

Sanitize ==
    /\ name_out = NONE
    /\ name_in \in SanitizerInputs
    /\ name_out' = sanitize_spss_varname(name_in)
    /\ UNCHANGED <<name_in, name_out2, pipeline_vars>>

SanitizeAgain ==
    /\ name_out # NONE
    /\ name_out2 = NONE
    /\ name_out2' = sanitize_spss_varname(name_out)
    /\ UNCHANGED <<name_in, name_out, pipeline_vars>>

NextSanitize == Sanitize \/ SanitizeAgain

SpecSanitize == InitSanitize /\ [][NextSanitize]_vars

----------------------------------------------------------------------------
(* Claims about the sanitizer *)

\* the characters [A-Za-z0-9_]
AsciiWordChars == AsciiLetter \cup AsciiDigit \cup {"_"}

\* the regular expression [A-Za-z][A-Za-z0-9_]{0,63}
MatchesAsciiIdentifier(s) ==
    /\ Len(s) >= 1
    /\ Len(s) <= 64
    /\ s[1] \in AsciiLetter
    /\ \A i \in 1..Len(s) : s[i] \in AsciiWordChars

\* C2: every result of sanitize_spss_varname matches [A-Za-z][A-Za-z0-9_]{0,63}
C2_AsciiIdentifier ==
    name_out # NONE => MatchesAsciiIdentifier(name_out)

\* C3: sanitize_spss_varname is idempotent: sanitize(sanitize(x)) = sanitize(x)
C3_Idempotent ==
    name_out2 # NONE => name_out2 = name_out

C3_Witness ==
    /\ name_out2 # NONE
    /\ name_out # name_in
    /\ Len(name_in) > SPSS_VAR_NAME_MAX_LEN
    /\ name_out[1] = "V"
    /\ Len(name_out) = SPSS_VAR_NAME_MAX_LEN

----------------------------------------------------------------------------
(* Claims about the final sanitization pass *)

\* the names of the committed table, which the final pass reads
CommittedNames == ColNames(ss_df_processed.df)
\* the names of the table handed to write_sav
WrittenNames == ColNames(sav.df)

\* C1: the final pass gives pairwise different identifiers of at most 64
\* characters; a name whose sanitized form no earlier output holds keeps it,
\* any other gets "_N" after a prefix of its sanitized form cut to fit
C1_DistinctFinalNames ==
    sav.called =>
        /\ Len(WrittenNames) = Len(CommittedNames)
        /\ \A i, j \in 1..Len(WrittenNames) : i # j => WrittenNames[i] # WrittenNames[j]
        /\ \A i \in 1..Len(WrittenNames) :
              /\ Len(WrittenNames[i]) <= SPSS_VAR_NAME_MAX_LEN
              /\ IF sanitize_spss_varname(CommittedNames[i])
                        \notin {WrittenNames[j] : j \in 1..(i - 1)}
                 THEN WrittenNames[i] = sanitize_spss_varname(CommittedNames[i])
                 ELSE \E N \in 1..Len(WrittenNames) :
                        WrittenNames[i] =
                            Prefix(sanitize_spss_varname(CommittedNames[i]),
                                   SPSS_VAR_NAME_MAX_LEN - (Len(StrOfNat(N)) + 1))
                            \o <<"_">> \o StrOfNat(N)

\* "Q1 (a)" and "Q1-a" were written as "Q1_a" and "Q1_a_1"
C1_Witness ==
    /\ sav.called
    /\ CommittedNames = <<nQ1pa, nQ1da>>
    /\ WrittenNames = <<nQ1ua, nQ1ua1>>

\* C4: what write_sav is handed is consistent: the final variable labels
\* have exactly the final identifiers as keys, the value labels and the
\* missing ranges only final identifiers, and the label list holds, column
\* by column, the label the session keeps for that column
C4_MetadataKeys ==
    sav.called =>
        /\ Keys(sav.final_variable_labels) = Range(WrittenNames)
        /\ Keys(sav.variable_value_labels) \subseteq Range(WrittenNames)
        /\ Keys(sav.missing_ranges) \subseteq Range(WrittenNames)
        /\ Len(sav.column_labels) = Len(WrittenNames)
        /\ \A i \in 1..Len(WrittenNames) :
              sav.column_labels[i] =
                  Get(ss_variable_labels, CommittedNames[i], Label256(CommittedNames[i]))

\* an export that renamed a column, with value labels, a missing range and
\* a session label whose key is no column
C4_Witness ==
    /\ sav.called
    /\ \E i \in 1..Len(WrittenNames) : WrittenNames[i] # CommittedNames[i]
    /\ sav.variable_value_labels # <<>>
    /\ sav.missing_ranges # <<>>
    /\ ~(Keys(ss_variable_labels) \subseteq Range(CommittedNames))

----------------------------------------------------------------------------
(* Claims about the encoding loop.  The loop evaluates the columns in the  *)
(* order of the table, renaming keeps the positions and the derive mode    *)
(* appends, so the column under evaluation is column col_i of the uploaded *)
(* table.                                                                  *)

\* an iteration of the encoding loop is about to run
InLoop == pc = "encode" /\ col_i <= Len(columnas_a_evaluar)
\* the current identifier of the column under evaluation
ColumnEvaluated == columnas_a_evaluar[col_i]
\* the column as it was loaded
ColumnLoaded == df_original[col_i]
\* pandas loaded the column as numbers
LoadedNumeric(c) == c.dtype \in {"int64", "float64"}
\* the text the encoding step reads in a cell
CellText(cell) == ReplaceEmpty(StrOfCell(cell))
\* the categories of a column: the texts of its cells that are not null
CategorySet(vals) ==
    {CellText(vals[r]) : r \in {q \in 1..Len(vals) : ~IsNull(vals[q])}}
CategoryCount == Cardinality(CategorySet(ColumnLoaded.vals))
WithinLimit == 1 < CategoryCount /\ CategoryCount <= MAX_CATEGORIAS_PARA_LLM
CategoryTuple == Sorted(CategorySet(ColumnLoaded.vals))
\* the iteration added the entry to the log
Logged(entry) ==
    \E k \in (Len(log_messages) + 1)..Len(log_messages') : log_messages'[k] = entry
\* the iteration encoded the column
Encoded ==
    \/ df_processed' # df_processed
    \/ spss_value_labels_dict' # spss_value_labels_dict
\* the numbers a mapping gives to a text
Assigned(items, t) ==
    {IntOf(items[k][2]) :
        k \in {q \in 1..Len(items) : items[q][1] = t /\ IntOk(items[q][2])}}
\* the position of the column the iteration wrote
Written == IF opts.mode = "derive" THEN Len(df_processed') ELSE col_i

\* the cell holds what the mapping gives: one of the numbers, or null
RowApplied(numbers, cell) ==
    IF numbers = {} THEN cell = Null ELSE cell \in {Num(n) : n \in numbers}

\* the column out is the mapping applied to the column source, row by row
ColumnApplied(items, source, out) ==
    /\ Len(out) = Len(source)
    /\ \A r \in 1..Len(source) :
          RowApplied(Assigned(items, CellText(source[r])), out[r])

\* C5: an applied mapping gives a column of as many rows as the loaded one,
\* where row r holds the number the mapping gives to the text of row r of
\* the loaded column, or null when the mapping gives none; the run goes on
C5_Applier ==
    [][(InLoop /\ Encoded) =>
          /\ pc' \in {"encode", "commit"}
          /\ df_processed'[Written].dtype = "Int64"
          /\ \E items \in {CacheGet(cache', CategoryTuple).mapping_dict.items} :
             \E out \in {df_processed'[Written].vals} :
                ColumnApplied(items, ColumnLoaded.vals, out)]_vars

nQ1pa_num == nQ1pa \o NumSuffix

\* a mapping without the second category was applied: the row of that
\* category is null between two rows that hold a number
C5_Witness ==
    /\ pc = "commit"
    /\ HasCol(df_processed, nQ1pa_num)
    /\ Col(df_processed, nQ1pa_num).vals = <<Num(1), Null, Num(1)>>
    /\ Col(df_original, nQ1pa).vals = <<cA, cB, cA>>

\* C6: in derive mode an encoding appends one column under a name the
\* table did not hold, leaves every column the table held as it was, and
\* gives the value labels to the new column only
C6_DeriveFrame ==
    [][(InLoop /\ opts.mode = "derive" /\ Encoded) =>
          /\ Len(df_processed') = Len(df_processed) + 1
          /\ \A j \in 1..Len(df_processed) : df_processed'[j] = df_processed[j]
          /\ df_processed'[Len(df_processed')].name \notin Range(ColNames(df_processed))
          /\ Keys(spss_value_labels_dict') =
                 Keys(spss_value_labels_dict) \cup {df_processed'[Len(df_processed')].name}
          /\ ~HasKey(spss_value_labels_dict', ColumnEvaluated)
          /\ \A k \in Keys(spss_value_labels_dict) :
                Get(spss_value_labels_dict', k, <<>>) = Get(spss_value_labels_dict, k, <<>>)
      ]_vars

nQ2_num1 == nQ2 \o NumSuffix \o <<"1">>

\* "Q2" was encoded next to a loaded column "Q2_num": the new column is
\* "Q2_num1" and both loaded columns are as they were
C6_Witness ==
    /\ pc = "commit"
    /\ opts.mode = "derive"
    /\ ColNames(df_processed) = <<nQ2, nQ2num, nQ2_num1>>
    /\ df_processed[1] = df_original[1]
    /\ df_processed[2] = df_original[2]
    /\ df_processed[3].dtype = "Int64"
    /\ Keys(spss_value_labels_dict) = {nQ2_num1}

\* C7: in replace mode an encoding leaves the identifiers and their order
\* as they were, changes no column but the encoded one and adds no key to
\* the variable labels; the value labels go to the encoded column
C7_ReplaceFrame ==
    [][(InLoop /\ opts.mode = "replace" /\ Encoded) =>
          /\ ColNames(df_processed') = ColNames(df_processed)
          /\ \A j \in 1..Len(df_processed) :
                j # col_i => df_processed'[j] = df_processed[j]
          /\ df_processed'[col_i].dtype = "Int64"
          /\ Keys(spss_variable_labels_dict') = Keys(spss_variable_labels_dict)
          /\ Keys(spss_value_labels_dict') =
                 Keys(spss_value_labels_dict) \cup {ColumnEvaluated}]_vars

\* the second of two columns was encoded in place, the first was not
C7_Witness ==
    /\ pc = "commit"
    /\ opts.mode = "replace"
    /\ Len(df_processed) = 2
    /\ ColNames(df_processed) = ColNames(df_original)
    /\ df_processed[1] = df_original[1]
    /\ df_processed[2].dtype = "Int64"
    /\ Keys(spss_value_labels_dict) = {df_processed[2].name}

\* C8: a column of text with fewer than two or more than
\* MAX_CATEGORIAS_PARA_LLM categories is skipped: no Advisor call, no cache
\* write, table and labels as they were, and a log entry that names the
\* column and, unless there is no category, the count
C8_SizeGateSkips ==
    [][(InLoop /\ ~LoadedNumeric(ColumnLoaded) /\ ~WithinLimit) =>
          /\ advisor_calls' = advisor_calls
          /\ cache' = cache
          /\ df_processed' = df_processed
          /\ spss_variable_labels_dict' = spss_variable_labels_dict
          /\ spss_value_labels_dict' = spss_value_labels_dict
          /\ pc' \in {"encode", "commit"}
          /\ IF CategoryCount = 0
             THEN Logged(MsgCol("encode: skipped, no categories", ColumnEvaluated))
             ELSE Logged(MsgColN("encode: skipped, category count", ColumnEvaluated,
                                 CategoryCount))]_vars

\* a run skipped a column without a value and a column of one category
C8_Witness ==
    /\ pc = "commit"
    /\ advisor_calls = <<>>
    /\ \E k \in 1..Len(log_messages) :
          log_messages[k] = MsgCol("encode: skipped, no categories", nAno)
    /\ \E k \in 1..Len(log_messages) :
          log_messages[k] = MsgColN("encode: skipped, category count", nLongA, 1)

\* C9: a column loaded as numbers is skipped before anything else is done
\* with it, whatever its current identifier: no Advisor call, no cache
\* write, table and labels as they were, and the log says why
C9_NumericNeverEncoded ==
    [][(InLoop /\ LoadedNumeric(ColumnLoaded)) =>
          /\ advisor_calls' = advisor_calls
          /\ cache' = cache
          /\ df_processed' = df_processed
          /\ spss_variable_labels_dict' = spss_variable_labels_dict
          /\ spss_value_labels_dict' = spss_value_labels_dict
          /\ SubSeq(log_messages', 1, Len(log_messages) + 2) =
                 log_messages \o
                     <<MsgCol("encode: column", ColumnEvaluated),
                       MsgCol("encode: skipped, numeric", ColumnEvaluated)>>
          /\ Len(log_messages') <= Len(log_messages) + 3]_vars

\* a numeric column was skipped under an identifier the uploaded table
\* does not hold, after an encoding in replace mode
C9_Witness ==
    /\ pc = "commit"
    /\ opts.mode = "replace"
    /\ Len(df_processed) = 2
    /\ df_processed[1].dtype = "Int64"
    /\ df_processed[2] = [df_original[2] EXCEPT !.name = df_processed[2].name]
    /\ LoadedNumeric(df_original[2])
    /\ df_processed[2].name \notin Range(ColNames(df_original))
    /\ \E k \in 1..Len(log_messages) :
          log_messages[k] = MsgCol("encode: skipped, numeric", df_processed[2].name)

----------------------------------------------------------------------------
(* Claims about the session cache *)

\* the call returned a suggestion that is not empty
Successful(raw) == raw.t = "dict" /\ ~AdvisorRaises(raw)
\* the suggestion has a mapping with a value that is a number
Encodes(sug) ==
    /\ SuggestsEncoding(sug)
    /\ \E k \in 1..Len(sug.mapping_dict.items) : IntOk(sug.mapping_dict.items[k][2])

\* what the iteration does with the categories key when the cache holds
\* them, and when it does not
CacheBeforeAdvisor(key) ==
    IF HasKey(cache, key)
    THEN /\ advisor_calls' = advisor_calls
         /\ cache' = cache
         /\ Logged(MsgCol("encode: cached suggestion used", ColumnEvaluated))
         /\ Encoded <=> Encodes(CacheGet(cache, key))
    ELSE /\ Len(advisor_calls') = Len(advisor_calls) + 1
         /\ SubSeq(advisor_calls', 1, Len(advisor_calls)) = advisor_calls
         /\ advisor_calls'[Len(advisor_calls')].col = ColumnEvaluated
         /\ advisor_calls'[Len(advisor_calls')].categories = key
         /\ IF Successful(advisor_calls'[Len(advisor_calls')].raw)
            THEN cache' = Append(cache,
                     <<key, get_llm_mapping_suggestion(
                                advisor_calls'[Len(advisor_calls')].raw)>>)
            ELSE cache' = cache
         /\ \A i \in 1..Len(advisor_calls) :
               advisor_calls[i].categories = key => ~Successful(advisor_calls[i].raw)

\* C10: for a column that reaches the cache, a cached suggestion is used
\* without an Advisor call; otherwise the Advisor is called once, a
\* successful response is stored under the sorted categories, and no
\* earlier call of the session for the same categories was successful
C10_CacheBeforeAdvisor ==
    [][(InLoop /\ ~LoadedNumeric(ColumnLoaded) /\ WithinLimit) =>
          \E key \in {CategoryTuple} : CacheBeforeAdvisor(key)]_vars

\* a later process invocation encoded the first column from the cache: the
\* session has made one Advisor call
C10_Witness ==
    /\ pc = "commit"
    /\ Len(advisor_calls) = 1
    /\ Successful(advisor_calls[1].raw)
    /\ \E k \in 1..Len(log_messages) :
          log_messages[k] = MsgCol("encode: cached suggestion used", df_processed[1].name)
    /\ \E k \in 1..Len(log_messages) :
          log_messages[k] = MsgCol("encode: cached suggestion used", df_processed[2].name)
    /\ HasKey(spss_value_labels_dict, df_processed[1].name)

----------------------------------------------------------------------------
(* Claims about what the loop does with the Advisor's response *)

\* this step called the Advisor
AdvisorCalled == Len(advisor_calls') = Len(advisor_calls) + 1
\* what the call of this step answered
ResponseReturned == advisor_calls'[Len(advisor_calls')].raw

\* a JSON object whose mapping holds a value int() does not convert
Unconvertible(raw) ==
    /\ raw.t = "dict"
    /\ raw.mapping_dict.isdict
    /\ \E i \in 1..Len(raw.mapping_dict.items) : ~IntOk(raw.mapping_dict.items[i][2])

\* C11: when a value of the mapping the Advisor returned for a column does
\* not convert to an integer, the whole suggestion is dropped: the table and
\* the value labels are as they were before the column was evaluated
C11_WholeSuggestionDiscarded ==
    [][(InLoop /\ AdvisorCalled /\ Unconvertible(ResponseReturned)) =>
          /\ df_processed' = df_processed
          /\ spss_value_labels_dict' = spss_value_labels_dict
      ]_vars

\* C12: whatever the Advisor answers for a column, the iteration ends with
\* the loop at the next column or at the commit, and the session keeps its
\* table: the invocation is not aborted
C12_InvocationCompletes ==
    [][InLoop =>
          /\ pc' \in {"encode", "commit"}
          /\ col_i' = col_i + 1
          /\ ss_df_processed' = ss_df_processed
      ]_vars

----------------------------------------------------------------------------
(* Claims about a batch without collaborators *)

\* the log holds the entry
InLog(entry) == \E k \in 1..Len(log_messages) : log_messages[k] = entry

\* a client is set and every call the invocation made has failed
AllCallsFailed ==
    /\ opts.client
    /\ opts.simplify => InLog(Msg("simplify: LLM failed, basic fallback"))
    /\ opts.labels => InLog(Msg("labels: LLM failed, original question"))
    /\ \A k \in 1..Len(advisor_calls) : advisor_calls[k].raw = RawFail

Unavailable == ~opts.client \/ AllCallsFailed

\* the encoding step would ask the Advisor about the loaded column
Eligible(c) ==
    /\ ~LoadedNumeric(c)
    /\ 1 < Cardinality(CategorySet(c.vals))
    /\ Cardinality(CategorySet(c.vals)) <= MAX_CATEGORIAS_PARA_LLM

\* the invocation has committed its results
Committed == pc = "export" /\ ss_df_processed.set

\* C13: without collaborators the invocation does not fail, and what it
\* commits has the loaded values in every column, no value labels, for every
\* column the loaded name cut to 256 characters as variable label, and a log
\* entry for what the encoding step skipped
C13_NoCollaborators ==
    Unavailable =>
        /\ ~InLog(Msg("ERROR FATAL"))
        /\ pc = "export" =>
              /\ ss_df_processed.set
              /\ Len(ss_df_processed.df) = Len(df_original)
              /\ \A i \in 1..Len(df_original) :
                    /\ ss_df_processed.df[i].vals = df_original[i].vals
                    /\ ss_df_processed.df[i].dtype = df_original[i].dtype
                    /\ HasKey(ss_variable_labels, ss_df_processed.df[i].name)
                    /\ Get(ss_variable_labels, ss_df_processed.df[i].name, NONE) =
                           Label256(df_original[i].name)
                    /\ (opts.encode /\ opts.client /\ Eligible(df_original[i])) =>
                           InLog(MsgCol("encode: no suggestion",
                                        ss_df_processed.df[i].name))
              /\ Keys(ss_variable_labels) = Range(CommittedNames)
              /\ ss_value_labels = <<>>
              /\ (opts.encode /\ ~opts.client) => InLog(Msg("encode: no client"))

\* every step was chosen, every call failed: the columns were renamed by
\* the local simplifier and the Advisor was asked about an eligible column
C13_Witness ==
    /\ Committed
    /\ opts.simplify /\ opts.labels /\ opts.encode
    /\ AllCallsFailed
    /\ advisor_calls # <<>>
    /\ \E i \in 1..Len(df_original) : ss_df_processed.df[i].name # df_original[i].name

----------------------------------------------------------------------------
(* Claims about the variable labels *)

\* the labels step ends with this step
LabelsStepDone == pc = "labels" /\ pc' # "labels"

\* the label the step may give to column i: what the Label Generator
\* answers for its identifier, its loaded name, or its identifier
LabelChoices(i) ==
    {Label256(LabelText(df_processed[i].name)),
     Label256(df_original[i].name),
     Label256(df_processed[i].name)}

\* C14: the labels step leaves a label for every column, the generated one
\* or the fallback, and every export hands the writer one label of 1 to 256
\* characters per column, the one kept under the column's final identifier
C14_LabelAlways ==
    [][/\ LabelsStepDone =>
             \A i \in 1..Len(df_processed) :
                /\ HasKey(spss_variable_labels_dict', df_processed[i].name)
                /\ Get(spss_variable_labels_dict', df_processed[i].name, NONE)
                       \in LabelChoices(i)
       /\ sav'.called =>
             /\ Len(sav'.column_labels) = Len(sav'.df)
             /\ \A i \in 1..Len(sav'.df) :
                   /\ Len(sav'.column_labels[i]) \in 1..VAR_LABEL_MAX_LEN
                   /\ HasKey(sav'.final_variable_labels, sav'.df[i].name)
                   /\ sav'.column_labels[i] =
                          Get(sav'.final_variable_labels, sav'.df[i].name, NONE)
      ]_vars

\* the generator answered for the first column only: its label was cut to
\* 256 characters, the second column has its loaded name as label, and the
\* column derived from the first has a label of 256 characters too
C14_Witness ==
    /\ sav.called
    /\ opts.labels /\ opts.client /\ ~opts.simplify
    /\ df_original[1].name = nLongQ
    /\ Len(sav.df) = 4
    /\ sav.column_labels[1] = Label256(LabelText(nLongQ))
    /\ sav.column_labels[2] = df_original[2].name
    /\ Len(sav.column_labels[3]) = VAR_LABEL_MAX_LEN

----------------------------------------------------------------------------
(* Claims about the missing-value classifier.  Column i of what the writer *)
(* gets is column i of the committed table.                                 *)

NumericDtypes == {"int64", "float64", "Int64"}

\* the cell holds a number, or a text that reads as one
CoercesToNumber(cell) ==
    \/ cell.k = "num"
    \/ /\ cell.k = "str"
       /\ cell.s # <<>>
       /\ \A k \in 1..Len(cell.s) : cell.s[k] \in AsciiDigit

\* the cell holds no value: null, or the text "nan" in any case
MissingCell(cell) ==
    \/ cell.k = "null"
    \/ /\ cell.k = "str"
       /\ Len(cell.s) = 3
       /\ <<ToLower(cell.s[1]), ToLower(cell.s[2]), ToLower(cell.s[3])>> = nan

AllCoerce(c) == \A r \in 1..Len(c.vals) : MissingCell(c.vals[r]) \/ CoercesToNumber(c.vals[r])
SomeCoerce(c) == \E r \in 1..Len(c.vals) : CoercesToNumber(c.vals[r])

\* what the writer got for column i: a numeric column without declaration
\* that has a value where the committed column has one, or a text column
\* with the declaration "nan"
ClassifiedAs(i, numeric) ==
    IF numeric
    THEN /\ sav.df[i].dtype \in NumericDtypes
         /\ ~HasKey(sav.missing_ranges, sav.df[i].name)
         /\ \A r \in 1..Len(sav.df[i].vals) :
               sav.df[i].vals[r].k = "null" <=> MissingCell(ss_df_processed.df[i].vals[r])
    ELSE /\ sav.df[i].dtype = "object"
         /\ Get(sav.missing_ranges, sav.df[i].name, NONE) = <<nan>>

\* C15: a numeric column gets no declaration, a text column whose values
\* all read as numbers is handed over as numbers without declaration, also
\* when it has no value at all, and any other text column stays text and
\* gets the declaration "nan"
C15_Classifier ==
    sav.called =>
        \A i \in 1..Len(sav.df) :
            ClassifiedAs(i, \/ ss_df_processed.df[i].dtype # "object"
                            \/ AllCoerce(ss_df_processed.df[i]))

\* C15, amended: a numeric column gets no declaration; a text column that
\* has a value and whose values all read as numbers is handed over as
\* numbers without declaration; any other text column, the one without any
\* value included, stays text and gets the declaration "nan"
C15_ClassifierAmended ==
    sav.called =>
        \A i \in 1..Len(sav.df) :
            ClassifiedAs(i, \/ ss_df_processed.df[i].dtype # "object"
                            \/ /\ AllCoerce(ss_df_processed.df[i])
                               /\ SomeCoerce(ss_df_processed.df[i]))

\* a text column of a number, a "NAN" and a null was handed over as numbers
C15_Witness ==
    /\ sav.called
    /\ ss_df_processed.df[1] = Column(nN, "object", <<c1, cNAN, Null>>)
    /\ sav.df[1].dtype = "float64"
    /\ sav.df[1].vals = <<Num(1), Null, Null>>
    /\ sav.missing_ranges = <<>>

----------------------------------------------------------------------------
(* Claims about the order of the final pass and the hand-off *)

\* the sanitizer leaves the identifier as it is
Sanitized(name) == sanitize_spss_varname(name) = name

\* C16: whatever steps ran, the writer gets identifiers the sanitizer leaves
\* alone, and for every column the variable label and the value labels the
\* session keeps under the column's committed name, now under its final
\* identifier; a column without value labels has none under its final one
C16_FinalPassBeforeWriter ==
    sav.called =>
        /\ Len(WrittenNames) = Len(CommittedNames)
        /\ \A i \in 1..Len(WrittenNames) :
              /\ Sanitized(WrittenNames[i])
              /\ Get(sav.final_variable_labels, WrittenNames[i], NONE) =
                     Get(ss_variable_labels, CommittedNames[i],
                         Label256(CommittedNames[i]))
              /\ sav.column_labels[i] =
                     Get(ss_variable_labels, CommittedNames[i],
                         Label256(CommittedNames[i]))
              /\ HasKey(sav.variable_value_labels, WrittenNames[i])
                     <=> HasKey(ss_value_labels, CommittedNames[i])
              /\ Get(sav.variable_value_labels, WrittenNames[i], NONE) =
                     Get(ss_value_labels, CommittedNames[i], NONE)
              /\ HasKey(sav.missing_ranges, WrittenNames[i])
                     <=> sav.df[i].dtype = "object"

\* no renaming and no label generation, an encoding in replace mode: the
\* value labels kept under "Q1 (a)" were handed over under "Q1_a"
C16_Witness ==
    /\ sav.called
    /\ ~opts.simplify /\ ~opts.labels /\ opts.encode /\ opts.mode = "replace"
    /\ CommittedNames = <<nQ1pa, nQ1da>>
    /\ WrittenNames = <<nQ1ua, nQ1ua1>>
    /\ HasKey(ss_value_labels, nQ1pa)
    /\ Keys(sav.variable_value_labels) = {nQ1ua, nQ1ua1}

----------------------------------------------------------------------------
(* Claims about the categories the Extractor gives.  The list is what the  *)
(* Advisor is called with and what the cache is keyed by.                   *)

\* the text has no white space at either end
Trimmed(t) == t = <<>> \/ (~IsSpace(t[1]) /\ ~IsSpace(t[Len(t)]))

\* every category list the session has used
CategoryListsUsed ==
    {advisor_calls[k].categories : k \in 1..Len(advisor_calls)} \cup Keys(cache)

\* C17: no category of a list the Advisor was called with, or the cache is
\* keyed by, has white space at its start or at its end
C17_TrimmedCategories ==
    \A cats \in CategoryListsUsed : \A k \in 1..Len(cats) : Trimmed(cats[k])

\* the column with every null cell replaced by the empty text
NullsAsEmpty(vals) ==
    [r \in 1..Len(vals) |-> IF vals[r].k = "null" THEN Txt(<<>>) ELSE vals[r]]

\* C18: the categories the Advisor is asked about for a column are those of
\* the column with its null cells read as empty texts: a null cell gives
\* the category "nan" as an empty text does
C18_NullAsEmpty ==
    [][(InLoop /\ AdvisorCalled) =>
          advisor_calls'[Len(advisor_calls')].categories =
              Sorted(CategorySet(NullsAsEmpty(ColumnLoaded.vals)))
      ]_vars

----------------------------------------------------------------------------
(* Claims about the name-simplification step *)

\* the step runs and renames
Simplifies == pc = "simplify" /\ opts.simplify

\* name is base, or a prefix of base with "_N"
FromBase(name, base) ==
    \/ name = base
    \/ \E N \in 1..Len(df_processed) :
          name = Prefix(base, SPSS_VAR_NAME_MAX_LEN - (Len(StrOfNat(N)) + 1))
                     \o <<"_">> \o StrOfNat(N)

\* the step took the names of the local simplifier for every column
LocalFallback ==
    \/ Logged(Msg("simplify: no client, basic fallback"))
    \/ Logged(Msg("simplify: LLM failed, basic fallback"))

\* C19: whatever the Name Simplifier answers, the step leaves as many
\* columns as before with their values, under pairwise different names of
\* at most 64 characters, each loaded name paired with the one new name of
\* its column; a column without a proposal has the name of the local
\* simplifier, suffixed when taken
C19_SimplifiedNamesDistinct ==
    [][Simplifies =>
          /\ Len(df_processed') = Len(df_processed)
          /\ \A i, j \in 1..Len(df_processed') :
                i # j => df_processed'[i].name # df_processed'[j].name
          /\ \A i \in 1..Len(df_processed') :
                /\ Len(df_processed'[i].name) \in 1..SPSS_VAR_NAME_MAX_LEN
                /\ df_processed'[i].vals = df_processed[i].vals
                /\ df_processed'[i].dtype = df_processed[i].dtype
                /\ original_to_simplified_map_for_labels'[i] =
                       <<df_original[i].name, df_processed'[i].name>>
                /\ LocalFallback =>
                       FromBase(df_processed'[i].name,
                                basic_column_simplifier(df_original[i].name))
          /\ Len(original_to_simplified_map_for_labels') = Len(df_processed)
      ]_vars

\* the Name Simplifier proposed one name for both columns: the second got
\* the suffix "_1"
C19_Witness ==
    /\ pc = "labels"
    /\ opts.simplify /\ opts.client
    /\ InLog(Msg("simplify: names of the LLM applied"))
    /\ \E base \in {sanitize_spss_varname(pQ1)} :
          ColNames(df_processed) = <<base, base \o <<"_", "1">>>>

----------------------------------------------------------------------------
(* Claims about what a process invocation keeps of the session *)

\* the step is the commit of an invocation
Commits == pc = "commit" /\ pc' = "export"

\* the log entries of an export
FinalPassEntries == {Msg("final: start"), Msg("final: names applied"), Msg("final: end")}

\* C20: what an invocation commits is built from the loaded table alone:
\* the committed table has the loaded columns first, the label maps are
\* keyed by columns of the committed table only, and the log holds no entry
\* of an earlier export; the cache only grows, every entry staying as it is
C20_RebuiltEachInvocation ==
    [][/\ Commits =>
             /\ ss_df_processed'.set
             /\ Len(ss_df_processed'.df) >= Len(df_original)
             /\ \A i \in 1..Len(df_original) :
                   \/ ss_df_processed'.df[i] = df_original[i]
                   \/ /\ opts.mode = "replace"
                      /\ ss_df_processed'.df[i].dtype = "Int64"
                      /\ HasKey(ss_value_labels', df_original[i].name)
             /\ Len(ss_df_processed'.df) > Len(df_original) => opts.mode = "derive"
             /\ Keys(ss_variable_labels') = Range(ColNames(ss_df_processed'.df))
             /\ Keys(ss_value_labels') \subseteq Range(ColNames(ss_df_processed'.df))
             /\ \A k \in 1..Len(log_messages') : log_messages'[k] \notin FinalPassEntries
       /\ Len(cache') >= Len(cache)
       /\ SubSeq(cache', 1, Len(cache)) = cache
      ]_vars

\* the first invocation derived two columns and was exported; the second,
\* in replace mode, committed the two loaded columns encoded from the cache,
\* with value labels for these two names only
C20_Witness ==
    /\ pc = "export"
    /\ runs_left = 0
    /\ opts.mode = "replace"
    /\ sav.called /\ Len(sav.df) = 4
    /\ Len(ss_df_processed.df) = 2
    /\ Keys(ss_value_labels) = Range(ColNames(df_original))
    /\ Len(advisor_calls) = 1
    /\ cache # <<>>

----------------------------------------------------------------------------
(* Claims about the mapping applied and its value labels.  The suggestion   *)
(* an iteration applies is the one the cache holds for the column's         *)
(* categories after the iteration.                                          *)

\* the pairs of the suggestion whose value converts to an integer
KeptPairs(items) == {k \in 1..Len(items) : IntOk(items[k][2])}

\* the last kept pair that gives the integer of pair k
LastPairOf(items, k) ==
    CHOOSE q \in KeptPairs(items) :
        /\ IntOf(items[q][2]) = IntOf(items[k][2])
        /\ \A r \in KeptPairs(items) :
              IntOf(items[r][2]) = IntOf(items[k][2]) => r <= q

\* table is the inversion of the kept pairs, later pairs winning
Inverts(table, items) ==
    /\ Keys(table) = {IntOf(items[k][2]) : k \in KeptPairs(items)}
    /\ \A k \in KeptPairs(items) :
          Get(table, IntOf(items[k][2]), NONE) =
              Prefix(items[LastPairOf(items, k)][1], VALUE_LABEL_MAX_LEN)

\* C21: the value labels recorded for an encoded column map every integer
\* of the applied mapping to the text, cut to 120 characters, of the last
\* category the Advisor's mapping gives that integer to
C21_ValueLabelsInvertMapping ==
    [][(InLoop /\ Encoded) =>
          \E items \in {CacheGet(cache', CategoryTuple).mapping_dict.items} :
          \E table \in {Get(spss_value_labels_dict',
                            df_processed'[Written].name, <<>>)} :
              Inverts(table, items)
      ]_vars

\* "a" and "b" were both given 1: the table of the new column holds "b"
C21_Witness ==
    /\ pc = "commit"
    /\ df_original[1] = Column(nQ1pa, "object", <<cA, cB, cA>>)
    /\ HasCol(df_processed, nQ1pa_num)
    /\ Col(df_processed, nQ1pa_num).vals = <<Num(1), Num(1), Num(1)>>
    /\ Get(spss_value_labels_dict, nQ1pa_num, <<>>) = <<<<1, <<"b">>>>>>

\* the mapping the iteration applied: the pairs of the cached suggestion
\* that converted
AppliedMapping ==
    mapeo_texto_a_numero(CacheGet(cache', CategoryTuple).mapping_dict.items)

\* C22: every key of the mapping applied to a column, and every text of the
\* column's value labels, is one of the categories extracted from the column
C22_KeysAreCategories ==
    [][(InLoop /\ Encoded) =>
          \E table \in {Get(spss_value_labels_dict',
                            df_processed'[Written].name, <<>>)} :
              /\ Keys(AppliedMapping) \subseteq CategorySet(ColumnLoaded.vals)
              /\ \A n \in Keys(table) :
                    Get(table, n, NONE) \in CategorySet(ColumnLoaded.vals)
      ]_vars

----------------------------------------------------------------------------
(* Claims about the name of the column derive mode adds *)

\* the identifiers of the table before the iteration
NamesBefore == Range(ColNames(df_processed))
\* the name derive mode asks for first
NumName == ColumnEvaluated \o NumSuffix
\* the name the iteration gave to the column it added
NameAdded == df_processed'[Len(df_processed')].name
\* the counters a taken name is tried with
Counters == 1..(Len(df_processed) + 1)

\* C23: the column derive mode adds is named <source>_num, and when the
\* table holds that name, by the suffix rule of the sanitizer's batch pass
C23_DeriveNameBatchRule ==
    [][(InLoop /\ opts.mode = "derive" /\ Encoded) =>
          NameAdded = UniqueName(NumName, NamesBefore)
      ]_vars

\* C23, amended: the column derive mode adds is named <source>_num, and when
\* the table holds that name, <source>_num followed by the least counter from 1
\* that gives a name the table does not hold, nothing being cut
C23_DeriveNameCounter ==
    [][(InLoop /\ opts.mode = "derive" /\ Encoded) =>
          IF NumName \notin NamesBefore
          THEN NameAdded = NumName
          ELSE \E n \in Counters :
                  /\ NameAdded = NumName \o StrOfNat(n)
                  /\ NameAdded \notin NamesBefore
                  /\ \A m \in 1..(n - 1) : NumName \o StrOfNat(m) \in NamesBefore
      ]_vars

\* the table held Q2_num: what is committed has the new column as Q2_num1
C23_Witness ==
    /\ Committed
    /\ opts.mode = "derive"
    /\ ColNames(df_original) = <<nQ2, nQ2num>>
    /\ CommittedNames = <<nQ2, nQ2num, nQ2_num1>>

----------------------------------------------------------------------------
(* Claims about what the session holds after an export and after a failed   *)
(* invocation                                                               *)

\* the step is a run of the export block
ExportRuns ==
    /\ pc \in {"export", "idle"}
    /\ pc' = "idle"
    /\ sav'.called
    /\ Len(log_messages') > Len(log_messages)

\* C24: an export whose writer fails ends the log with the error and leaves
\* the session's table, its two label maps and the cache as they were, the
\* table still there for the next attempt
C24_FailedExportKeepsSession ==
    [][(ExportRuns /\ ~sav'.written) =>
          /\ log_messages'[Len(log_messages')] = Msg("ERROR FATAL .SAV")
          /\ ss_df_processed' = ss_df_processed
          /\ ss_df_processed'.set
          /\ ss_variable_labels' = ss_variable_labels
          /\ ss_value_labels' = ss_value_labels
          /\ cache' = cache
      ]_vars

\* an export failed and its rerun wrote the file, renaming a column, from a
\* session with value labels and a cache entry
C24_Witness ==
    /\ pc = "idle"
    /\ sav.called /\ sav.written
    /\ InLog(Msg("ERROR FATAL .SAV"))
    /\ ss_value_labels # <<>>
    /\ cache # <<>>
    /\ WrittenNames # CommittedNames

\* the step ends a process invocation that did not get to its commit
Fails == pc \notin {"idle", "export", "commit"} /\ pc' = "idle"

\* C25: the session's table and label maps are stored in one step, after
\* the last column, as the invocation built them; they change in no other
\* step but the one that ends a failed invocation, which takes the table
\* away, so that every export writes a table with the label maps that were
\* stored with it
C25_AllOrNothing ==
    [][/\ Commits =>
             /\ col_i > Len(columnas_a_evaluar)
             /\ ss_df_processed' = Table(df_processed)
             /\ ss_variable_labels' = spss_variable_labels_dict
             /\ ss_value_labels' = spss_value_labels_dict
       /\ Fails => ~ss_df_processed'.set
       /\ <<ss_df_processed, ss_variable_labels, ss_value_labels>>' #
              <<ss_df_processed, ss_variable_labels, ss_value_labels>>
             => Commits \/ Fails
       /\ ExportRuns =>
             /\ ss_df_processed = Table(df_processed)
             /\ ss_variable_labels = spss_variable_labels_dict
             /\ ss_value_labels = spss_value_labels_dict
      ]_vars

\* the invocation after one that committed and exported value labels has
\* failed with a column encoded: the table is gone, the label maps of the
\* earlier invocation are still there
C25_Witness ==
    /\ pc = "idle"
    /\ ~ss_df_processed.set
    /\ ss_value_labels # <<>>
    /\ sav.called /\ sav.variable_value_labels # <<>>
    /\ spss_value_labels_dict # <<>>
    /\ log_messages[Len(log_messages)] = Msg("ERROR FATAL")

----------------------------------------------------------------------------
(* Claims about the encoded columns at export *)

\* the columns of the written table that have value labels
LabelledColumns ==
    {i \in 1..Len(sav.df) : HasKey(sav.variable_value_labels, sav.df[i].name)}

\* C26: a column that is written with value labels is a numeric column and
\* has no missing-value declaration, and every column the session holds
\* value labels for is a numeric column of the committed table
C26_LabelledColumnsNumeric ==
    /\ sav.called =>
          \A i \in LabelledColumns :
              /\ sav.df[i].dtype \in NumericDtypes
              /\ ~HasKey(sav.missing_ranges, sav.df[i].name)
    /\ ss_df_processed.set =>
          \A name \in Keys(ss_value_labels) :
              /\ HasCol(ss_df_processed.df, name)
              /\ Col(ss_df_processed.df, name).dtype \in NumericDtypes

\* replace mode wrote an encoded column with its value labels next to a
\* text column that got the declaration
C26_Witness ==
    /\ sav.called
    /\ opts.mode = "replace"
    /\ Len(sav.df) = 2
    /\ LabelledColumns = {1}
    /\ sav.df[1].dtype = "Int64"
    /\ Keys(sav.missing_ranges) = {sav.df[2].name}
    /\ \E r \in 1..Len(sav.df[1].vals) : sav.df[1].vals[r] = Null

\* every value of the column is a key of the table
ValuesLabelled(c, table) ==
    \A r \in 1..Len(c.vals) :
        ~IsNull(c.vals[r]) => c.vals[r].k = "num" /\ c.vals[r].n \in Keys(table)

\* C27: every column the encoding step wrote has a value-label table, in
\* the session under its committed name and at the writer under its final
\* name, and every value of the column that is not missing is a key of it
C27_ValuesHaveLabels ==
    /\ ss_df_processed.set =>
          \A i \in 1..Len(ss_df_processed.df) :
              ss_df_processed.df[i].dtype = "Int64" =>
                  /\ HasKey(ss_value_labels, ss_df_processed.df[i].name)
                  /\ ValuesLabelled(ss_df_processed.df[i],
                         Get(ss_value_labels, ss_df_processed.df[i].name, <<>>))
    /\ sav.called =>
          \A i \in 1..Len(sav.df) :
              sav.df[i].dtype = "Int64" =>
                  /\ HasKey(sav.variable_value_labels, sav.df[i].name)
                  /\ ValuesLabelled(sav.df[i],
                         Get(sav.variable_value_labels, sav.df[i].name, <<>>))

\* derive mode on a column whose name the final pass changes: the new
\* column is written under its final name with values 1, missing, 1 and the
\* labels of the mapping
C27_Witness ==
    /\ sav.called
    /\ opts.mode = "derive"
    /\ \E i \in 1..Len(sav.df) :
          /\ sav.df[i].dtype = "Int64"
          /\ sav.df[i].name # ss_df_processed.df[i].name
          /\ sav.df[i].vals = <<Num(1), Null, Num(1)>>
          /\ 1 \in Keys(Get(sav.variable_value_labels, sav.df[i].name, <<>>))

----------------------------------------------------------------------------
(* Claims about the life of a cache entry *)

\* the call of this step failed, raised, or answered something empty
NothingReturned ==
    \/ AdvisorRaises(ResponseReturned)
    \/ ~Truthy(get_llm_mapping_suggestion(ResponseReturned))

\* the entry holds what an Advisor call for its key answered: a parsed
\* object that is not empty
ParsedAnswer(entry, calls) ==
    /\ Truthy(entry[2])
    /\ \E i \in 1..Len(calls) :
          /\ calls[i].categories = entry[1]
          /\ calls[i].raw.t = "dict"
          /\ entry[2] = get_llm_mapping_suggestion(calls[i].raw)

\* C28: no step of the session removes or changes a cache entry, a call
\* that returned nothing adds none, and every entry is the parsed, not
\* empty answer of a call for its key
C28_CacheMonotone ==
    [][/\ Len(cache') >= Len(cache)
       /\ \A k \in 1..Len(cache) : cache'[k] = cache[k]
       /\ (AdvisorCalled /\ NothingReturned) => cache' = cache
       /\ \A k \in 1..Len(cache') : ParsedAnswer(cache'[k], advisor_calls')
      ]_vars

\* the first invocation's call for the first column failed and its call for
\* the second was stored; the second invocation asked again for the first
\* column only, and stored the answer after the entry it found
C28_Witness ==
    /\ runs_left = 0
    /\ pc = "export"
    /\ Len(advisor_calls) = 3
    /\ advisor_calls[1].raw = RawFail
    /\ Successful(advisor_calls[2].raw)
    /\ Successful(advisor_calls[3].raw)
    /\ advisor_calls[3].categories = advisor_calls[1].categories
    /\ Len(cache) = 2
    /\ cache[1][1] = advisor_calls[2].categories
    /\ cache[2][1] = advisor_calls[1].categories

----------------------------------------------------------------------------
(* Claims about the resolution of a current name to the loaded column.      *)
(* Column i of the processed table is column i of the loaded one: the       *)
(* renaming changes names only, and derive mode appends.                    *)

\* the renaming step is done and the invocation is not over
Renamed == pc \in {"labels", "encode", "commit"}

\* the loaded name the encoding loop resolves a current name to (lines
\* 449-455)
ResolvedByLoop(current) ==
    FirstOriginalOf(original_to_simplified_map_for_labels, current, current)

\* the loaded name label generation resolves a current name to (lines
\* 395-406)
ResolvedForLabels(current) ==
    Get(map_current_name_to_original_question(
            original_to_simplified_map_for_labels,
            SubSeq(df_processed, 1, Len(df_original)), opts.simplify),
        current, NONE)

\* C29: after the renaming step every current name of a loaded column is
\* resolved, by the encoding loop and by label generation alike, to the
\* name the column of the same data was loaded with, and the current names
\* differ from one another
C29_ResolutionBijective ==
    Renamed =>
        /\ \A i \in 1..Len(df_original) :
              /\ ResolvedByLoop(df_processed[i].name) = df_original[i].name
              /\ ResolvedForLabels(df_processed[i].name) = df_original[i].name
        /\ \A i, j \in 1..Len(df_original) :
              i # j => df_processed[i].name # df_processed[j].name

\* the two columns were renamed to each other's loaded name, and replace
\* mode encoded the first with the values of the column loaded first
C29_Witness ==
    /\ pc = "commit"
    /\ opts.simplify /\ opts.mode = "replace"
    /\ ColNames(df_original) = <<nQ2, nQ2num>>
    /\ ColNames(df_processed) = <<nQ2num, nQ2>>
    /\ df_processed[1].dtype = "Int64"
    /\ df_processed[2].vals = df_original[2].vals

----------------------------------------------------------------------------
(* Claims about null cells in the encoding step *)

\* the cell is the empty text or the text "nan"
EmptyOrNanText(cell) == cell.k = "str" /\ cell.s \in {<<>>, nan}

\* C30: a row whose loaded cell is null gets, in the encoded column, the
\* number the applied mapping gives to "nan", and null when it gives none;
\* and the list the Advisor is asked about holds "nan" exactly when a cell
\* of the column is the empty text or the text "nan", null cells adding
\* nothing to it
C30_NullRows ==
    [][/\ (InLoop /\ Encoded) =>
             \E items \in {CacheGet(cache', CategoryTuple).mapping_dict.items} :
             \E out \in {df_processed'[Written].vals} :
                 \A r \in 1..Len(ColumnLoaded.vals) :
                     IsNull(ColumnLoaded.vals[r]) =>
                         RowApplied(Assigned(items, nan), out[r])
       /\ (InLoop /\ AdvisorCalled) =>
             \E cats \in {advisor_calls'[Len(advisor_calls')].categories} :
                 /\ nan \in Range(cats) <=>
                       \E r \in 1..Len(ColumnLoaded.vals) :
                           EmptyOrNanText(ColumnLoaded.vals[r])
                 /\ Range(cats) =
                       CategorySet(SelectSeq(ColumnLoaded.vals, LAMBDA c : ~IsNull(c)))
      ]_vars

\* the Advisor was asked about "a" and "b" for the column b, null, a and
\* answered with "nan" among its keys: the null row holds the number of "nan"
C30_Witness ==
    /\ pc = "commit"
    /\ df_original[2].vals = <<cB, Null, cA>>
    /\ \E k \in 1..Len(advisor_calls) :
          /\ advisor_calls[k].categories = <<<<"a">>, <<"b">>>>
          /\ advisor_calls[k].col = df_original[2].name
    /\ opts.mode = "replace"
    /\ df_processed[2].vals = <<Null, Num(97), Num(1)>>

====
